---- MODULE Spec2Model ----
(***************************************************************************)
(* A model of the m3ter Terraform provider's shared layer: the HTTP client *)
(* wrapper (client.go), the token-bucket limiter the provider hands to it  *)
(* (provider.go), the generic CRUD functions and the mapper (the generic   *)
(* helpers file), and the data source Read (product_data_source.go).       *)
(***************************************************************************)
EXTENDS Integers, Sequences, FiniteSets, TLC

\* ------------------------------------------------------------------ bounds
NumProcs == 2          \* concurrent operations, each one call of a resource method
MaxTicks == 2          \* limiter refill intervals (1/rate seconds) modelled
MaxPages == 1          \* pages the list endpoint serves before its last page
MaxCalls == 3          \* list calls of one ImportState that are followed
MaxWrites == 2         \* writes another client makes to the remote entity

\* --------------------------------------------------------- program constants
Rate == 10             \* rate.NewLimiter(rate.Limit(10), 1): tokens per second
BurstSwapped == Rate
Burst == 1             \* rate.NewLimiter(rate.Limit(10), 1): the bucket's size
PageSize == 200        \* queryParams.Set("pageSize", "200")

Procs == 1..NumProcs

\* The status codes a response may carry: both edges of the 2xx range.
Statuses == {199, 200, 299, 300, 404}
\* The body text of a non-2xx response.
Bodies == {"", "oops"}

VARIABLES
    pc,        \* pc[p]: where operation p stands
    op,        \* op[p]: the operation p runs
    call,      \* call[p]: the arguments of p's current client.execute call
    err,       \* err[p]: what p's last client.execute returned
    resp,      \* resp[p]: the HTTP response p's last request received
    decoded,   \* decoded[p]: the last execute decoded a body into responseBody
    log,       \* log[p]: the steps of p's operation so far, in order
    diags,     \* diags[p]: the summaries of the error diagnostics added
    ctxDone,   \* ctxDone[p]: p's context is cancelled
    tokens,    \* limiter: tokens in the bucket (negative: reserved ahead)
    waitLeft,  \* limiter: waitLeft[p], intervals until p's reservation matures
    lastLeft,  \* limiter: intervals until the limiter's lastEvent
    ticks,     \* refill intervals elapsed
    sent,      \* HTTP requests put on the wire, by all operations
    ds,        \* the data source Read in progress: its request and response
    mp,        \* a mapper at work: its inputs, its map and its target
    rs,        \* a resource operation in progress, with its data
    pv,        \* the provider's Configure: its inputs and what it published
    im         \* a product ImportState in progress

execVars == <<pc, op, call, err, resp, decoded, log, diags, ctxDone>>
limVars == <<tokens, waitLeft, lastLeft, ticks, sent>>
vars == <<execVars, limVars, ds, mp, rs, pv, im>>
\* What the client and the generic functions leave alone, what the data
\* source Read leaves alone, and what a mapper leaves alone.
notClient == <<ds, mp, rs, pv, im>>
notDs == <<execVars, limVars, mp, rs, pv, im>>
notMapper == <<execVars, limVars, ds, rs, pv, im>>
notRs == <<execVars, limVars, ds, mp, pv, im>>
notPv == <<execVars, limVars, ds, mp, rs, im>>
notIm == <<execVars, limVars, ds, mp, rs, pv>>

\* ------------------------------------------------------------ client.go
\* query: nil, or the pageSize and nextToken parameters ("" when not set).
NoQuery == [pageSize |-> 0, nextToken |-> ""]
NoCall == [method |-> "", path |-> "", query |-> NoQuery, body |-> FALSE, out |-> FALSE]
NoError == [kind |-> "nil", code |-> 0, body |-> ""]
NoResp == [status |-> 0, body |-> "", readOK |-> TRUE]

\* type statusCodeError struct { StatusCode int; Body string }
statusCodeError(code, body) == [kind |-> "status", code |-> code, body |-> body]
\* Any other error execute returns, named by the step that produced it.
otherError(kind) == [kind |-> kind, code |-> 0, body |-> ""]

Min(a, b) == IF a < b THEN a ELSE b
Max(a, b) == IF a > b THEN a ELSE b

\* if resp.StatusCode < 200 || resp.StatusCode >= 300
IsErrorStatusOff(s) == s < 200 \/ s > 300
IsErrorStatus(s) == s < 200 \/ s >= 300

Return(p, e) ==
    /\ pc' = [pc EXCEPT ![p] = "ret"]
    /\ err' = [err EXCEPT ![p] = e]

\* The steps an operation logs: a call of execute, Wait returning nil.
CallEvent(c) == <<"call", c.method, c.path, c.query>>
TokenEvent == <<"token">>

ExecWaitUnchecked(p) ==
    /\ UNCHANGED notClient
    /\ pc[p] = "call"
    /\ pc' = [pc EXCEPT ![p] = "send"]
    /\ log' = [log EXCEPT ![p] = Append(@, CallEvent(call[p]))]
    /\ resp' = [resp EXCEPT ![p] = NoResp]
    /\ decoded' = [decoded EXCEPT ![p] = FALSE]
    /\ UNCHANGED <<op, call, err, diags, ctxDone, limVars>>
\* The entry of execute, err := c.limit.Wait(ctx): a cancelled context fails
\* at once; a reservation that cannot mature before the context's deadline is
\* refused and takes no token; otherwise one token is reserved, and the call
\* waits when the bucket has gone negative.
ExecWait(p) ==
    /\ UNCHANGED notClient
    /\ pc[p] = "call"
    /\ \/ /\ ctxDone[p]
          /\ Return(p, otherError("limiter"))
          /\ log' = [log EXCEPT ![p] = Append(@, CallEvent(call[p]))]
          /\ UNCHANGED <<tokens, waitLeft, lastLeft>>
       \/ /\ ~ctxDone[p]
          /\ tokens < 1
          /\ Return(p, otherError("limiter"))
          /\ log' = [log EXCEPT ![p] = Append(@, CallEvent(call[p]))]
          /\ UNCHANGED <<tokens, waitLeft, lastLeft>>
       \/ /\ ~ctxDone[p]
          /\ tokens >= 1
          /\ tokens' = tokens - 1
          /\ lastLeft' = 0
          /\ pc' = [pc EXCEPT ![p] = "send"]
          /\ log' = [log EXCEPT
                        ![p] = Append(Append(@, CallEvent(call[p])), TokenEvent)]
          /\ UNCHANGED <<waitLeft, err>>
       \/ /\ ~ctxDone[p]
          /\ tokens < 1
          /\ tokens' = tokens - 1
          /\ waitLeft' = [waitLeft EXCEPT ![p] = 1 - tokens]
          /\ lastLeft' = 1 - tokens
          /\ pc' = [pc EXCEPT ![p] = "wait"]
          /\ log' = [log EXCEPT ![p] = Append(@, CallEvent(call[p]))]
          /\ UNCHANGED err
    /\ resp' = [resp EXCEPT ![p] = NoResp]
    /\ decoded' = [decoded EXCEPT ![p] = FALSE]
    /\ UNCHANGED <<op, call, diags, ctxDone, ticks, sent>>

\* The reservation's timer fires: Wait returns nil.
LimiterTimer(p) ==
    /\ UNCHANGED notClient
    /\ pc[p] = "wait"
    /\ waitLeft[p] = 0
    /\ pc' = [pc EXCEPT ![p] = "send"]
    /\ log' = [log EXCEPT ![p] = Append(@, TokenEvent)]
    /\ UNCHANGED <<op, call, err, resp, decoded, diags, ctxDone, limVars>>

\* The context is cancelled during the wait: the reservation is cancelled,
\* which gives the token back when no later reservation was made on top of it.
LimiterCancel(p) ==
    /\ UNCHANGED notClient
    /\ pc[p] = "wait"
    /\ ctxDone[p]
    /\ IF waitLeft[p] = lastLeft /\ waitLeft[p] > 0
       THEN /\ tokens' = Min(Burst, tokens + 1)
            /\ lastLeft' = lastLeft - 1
       ELSE UNCHANGED <<tokens, lastLeft>>
    /\ waitLeft' = [waitLeft EXCEPT ![p] = 0]
    /\ Return(p, otherError("limiter"))
    /\ UNCHANGED <<op, call, resp, decoded, log, diags, ctxDone, ticks, sent>>

\* One refill interval passes: the bucket gains a token, up to its burst.
Tick ==
    /\ UNCHANGED notClient
    /\ ticks < MaxTicks
    /\ ticks' = ticks + 1
    /\ tokens' = Min(Burst, tokens + 1)
    /\ waitLeft' = [p \in Procs |-> Max(0, waitLeft[p] - 1)]
    /\ lastLeft' = Max(0, lastLeft - 1)
    /\ UNCHANGED <<execVars, sent>>

\* The caller's context is cancelled while its operation runs.
CtxCancel(p) ==
    /\ UNCHANGED notClient
    /\ pc[p] \notin {"idle", "done"}
    /\ ~ctxDone[p]
    /\ ctxDone' = [ctxDone EXCEPT ![p] = TRUE]
    /\ UNCHANGED <<pc, op, call, err, resp, decoded, log, diags, limVars>>

HttpEvent(c) == <<"http", c.method, c.path, c.query>>

\* json.Marshal(requestBody), http.NewRequestWithContext, c.client.Do(req):
\* the request is built and put on the wire, unless building it fails or the
\* transport fails before anything is sent.
ExecSend(p) ==
    /\ UNCHANGED notClient
    /\ pc[p] = "send"
    /\ \/ /\ call[p].body
          /\ Return(p, otherError("marshal"))
          /\ UNCHANGED <<log, sent>>
       \/ /\ Return(p, otherError("transport"))
          /\ UNCHANGED <<log, sent>>
       \/ /\ pc' = [pc EXCEPT ![p] = "inflight"]
          /\ log' = [log EXCEPT ![p] = Append(@, HttpEvent(call[p]))]
          /\ sent' = sent + 1
          /\ UNCHANGED err
    /\ UNCHANGED <<op, call, resp, decoded, diags, ctxDone,
                   tokens, waitLeft, lastLeft, ticks>>

ExecTransportRetry(p) ==
    /\ UNCHANGED notClient
    /\ pc[p] = "inflight"
    /\ pc' = [pc EXCEPT ![p] = "send"]
    /\ UNCHANGED <<op, call, err, resp, decoded, log, diags, ctxDone, limVars>>
\* c.client.Do(req) fails after the request left.
ExecTransportError(p) ==
    /\ UNCHANGED notClient
    /\ pc[p] = "inflight"
    /\ Return(p, otherError("transport"))
    /\ UNCHANGED <<op, call, resp, decoded, log, diags, ctxDone, limVars>>

\* What execute returns for a response of status s: body is the response's
\* text, readOK whether io.ReadAll could read it, decodeOK whether the JSON
\* decoder accepts it.
ExecResult(c, s, body, readOK, decodeOK) ==
    IF IsErrorStatus(s)
    THEN IF readOK THEN statusCodeError(s, body) ELSE statusCodeError(s, "")
    ELSE IF c.out /\ ~decodeOK THEN otherError("decode") ELSE NoError

\* Whether execute runs json.NewDecoder(resp.Body).Decode(responseBody).
ExecDecodes(c, s) == ~IsErrorStatus(s) /\ c.out

\* The response arrives.
ExecRespond(p, s, body, readOK, decodeOK) ==
    /\ UNCHANGED notClient
    /\ pc[p] = "inflight"
    /\ resp' = [resp EXCEPT ![p] = [status |-> s, body |-> body, readOK |-> readOK]]
    /\ decoded' = [decoded EXCEPT ![p] = ExecDecodes(call[p], s)]
    /\ Return(p, ExecResult(call[p], s, body, readOK, decodeOK))
    /\ UNCHANGED <<op, call, log, diags, ctxDone, limVars>>

\* ------------------------------------------- generic CRUD (generic helpers)
\* The control flow of each generic function: the step that follows step
\* `at`, given whether resp.Diagnostics.HasError() holds after it, whether
\* the execute call that just returned failed, and that call's method.
genericCreateNextUnchecked(at, hasError, execFailed, method) ==
    CASE at = "plan" -> IF hasError THEN "done" ELSE "write"
      [] at = "write" -> IF hasError THEN "done" ELSE "call"
      [] at = "ret" -> "read"
      [] at = "read" -> "set"
      [] OTHER -> "done"
genericCreateNext(at, hasError, execFailed, method) ==
    CASE at = "plan" -> IF hasError THEN "done" ELSE "write"
      [] at = "write" -> IF hasError THEN "done" ELSE "call"
      [] at = "ret" -> "read"
      [] at = "read" -> IF hasError THEN "done" ELSE "set"
      [] OTHER -> "done"

genericReadNextStateFirst(at, hasError, execFailed, method) ==
    CASE at = "plan" -> IF hasError THEN "done" ELSE "call"
      [] at = "ret" -> IF execFailed THEN "done" ELSE "set"
      [] at = "set" -> "read"
      [] OTHER -> "done"
genericReadNext(at, hasError, execFailed, method) ==
    CASE at = "plan" -> IF hasError THEN "done" ELSE "call"
      [] at = "ret" -> IF execFailed THEN "done" ELSE "read"
      [] at = "read" -> "set"
      [] OTHER -> "done"

genericUpdateNextUnchecked(at, hasError, execFailed, method) ==
    CASE at = "plan" -> IF hasError THEN "done" ELSE "call"
      [] at = "ret" /\ method = "GET" -> "write"
      [] at = "write" -> "call"
      [] at = "ret" /\ method = "PUT" -> "read"
      [] at = "read" -> IF hasError THEN "done" ELSE "set"
      [] OTHER -> "done"
genericUpdateNext(at, hasError, execFailed, method) ==
    CASE at = "plan" -> IF hasError THEN "done" ELSE "call"
      [] at = "ret" /\ method = "GET" -> IF execFailed THEN "done" ELSE "write"
      [] at = "write" -> IF hasError THEN "done" ELSE "call"
      [] at = "ret" /\ method = "PUT" -> "read"
      [] at = "read" -> IF hasError THEN "done" ELSE "set"
      [] OTHER -> "done"

genericDeleteNext(at, hasError, execFailed, method) ==
    CASE at = "plan" -> IF hasError THEN "done" ELSE "call"
      [] OTHER -> "done"

CrudOps == {"create", "read", "update", "delete"}

\* The organization config resource has its own Create, Read, Update and
\* Delete: Create and Update read the remote configuration, overlay the plan
\* and PUT it back; Delete does nothing.
OrgOps == {"orgCreate", "orgRead", "orgUpdate", "orgDelete"}
OrganizationConfigDeleteRemote(o, at, hasError, execFailed, method) ==
    CASE o \in {"orgRead", "orgDelete"} /\ at = "begin" ->
            IF hasError THEN "done" ELSE "call"
      [] o = "orgRead" /\ at = "ret" -> IF execFailed THEN "done" ELSE "orgread"
      [] o = "orgRead" /\ at = "orgread" -> "orgset"
      [] o \in {"orgCreate", "orgUpdate"} /\ at = "begin" -> "call"
      [] OTHER -> "done"
OrganizationConfigNext(o, at, hasError, execFailed, method) ==
    CASE o = "orgDelete" -> "done"
      [] o = "orgRead" /\ at = "begin" -> IF hasError THEN "done" ELSE "call"
      [] o = "orgRead" /\ at = "ret" -> IF execFailed THEN "done" ELSE "orgread"
      [] o = "orgRead" /\ at = "orgread" -> "orgset"
      [] at = "begin" -> "call"
      [] at = "ret" -> IF execFailed THEN "done" ELSE "orgread"
      [] at = "orgread" /\ method = "GET" -> IF hasError THEN "done" ELSE "orgplan"
      [] at = "orgplan" -> "orgwrite"
      [] at = "orgwrite" -> IF hasError THEN "done" ELSE "call"
      [] at = "orgread" /\ method = "PUT" -> "orgset"
      [] OTHER -> "done"

NextStep(o, at, hasError, execFailed, method) ==
    CASE o = "create" -> genericCreateNext(at, hasError, execFailed, method)
      [] o = "read" -> genericReadNext(at, hasError, execFailed, method)
      [] o = "update" -> genericUpdateNext(at, hasError, execFailed, method)
      [] o = "delete" -> genericDeleteNext(at, hasError, execFailed, method)
      [] o \in OrgOps -> OrganizationConfigNext(o, at, hasError, execFailed, method)

\* The execute call each function makes from step `at`.
\* client.execute(ctx, "POST", path, nil, restData, &updatedRestData)
\* client.execute(ctx, "GET", path+"/"+id, nil, nil, &restData)
\* client.execute(ctx, "PUT", path+"/"+id, nil, restData, &newRestData)
\* client.execute(ctx, "DELETE", path+"/"+id, nil, nil, nil)
CallOf(o, at) ==
    CASE o = "create" ->
            [method |-> "POST", path |-> "/c", query |-> NoQuery,
             body |-> TRUE, out |-> TRUE]
      [] o = "read" ->
            [method |-> "GET", path |-> "/c/id", query |-> NoQuery,
             body |-> FALSE, out |-> TRUE]
      [] o = "update" /\ at = "plan" ->
            [method |-> "GET", path |-> "/c/id", query |-> NoQuery,
             body |-> FALSE, out |-> TRUE]
      [] o = "update" /\ at = "write" ->
            [method |-> "PUT", path |-> "/c/id", query |-> NoQuery,
             body |-> TRUE, out |-> TRUE]
      [] o = "delete" ->
            [method |-> "DELETE", path |-> "/c/id", query |-> NoQuery,
             body |-> FALSE, out |-> FALSE]
      [] o \in OrgOps /\ at # "orgwrite" ->
            [method |-> "GET", path |-> "/organizationconfig", query |-> NoQuery,
             body |-> FALSE, out |-> TRUE]
      [] o \in OrgOps /\ at = "orgwrite" ->
            [method |-> "PUT", path |-> "/organizationconfig", query |-> NoQuery,
             body |-> TRUE, out |-> TRUE]

\* One step of a generic function: the step is logged, `added` are the error
\* diagnostics it adds, and the function goes on as its control flow says.
Advance(p, o, at, event, added, execFailed) ==
    LET d == diags[p] \cup added
        to == NextStep(o, at, d # {}, execFailed, call[p].method)
    IN /\ diags' = [diags EXCEPT ![p] = d]
       /\ log' = [log EXCEPT ![p] = IF event = <<>> THEN @ ELSE Append(@, event)]
       /\ pc' = [pc EXCEPT ![p] = to]
       /\ call' = [call EXCEPT ![p] = IF to = "call" THEN CallOf(o, at) ELSE @]

\* req.Plan.Get(ctx, &data) or req.State.Get(ctx, &data)
Begin(p, o, ok) ==
    /\ UNCHANGED notClient
    /\ pc[p] = "idle"
    /\ op' = [op EXCEPT ![p] = o]
    /\ Advance(p, o, "plan", <<"plan">>, IF ok THEN {} ELSE {"Plan Error"}, FALSE)
    /\ UNCHANGED <<err, resp, decoded, ctxDone, limVars>>

\* write(ctx, &data, restData, &resp.Diagnostics)
WriteCallback(p, ok) ==
    /\ UNCHANGED notClient
    /\ pc[p] = "write"
    /\ Advance(p, op[p], "write", <<"write">>,
               IF ok THEN {} ELSE {"Cannot map field"}, FALSE)
    /\ UNCHANGED <<op, err, resp, decoded, ctxDone, limVars>>

ClientError(o) ==
    CASE o = "create" -> "Client Error: Unable to create"
      [] o = "delete" -> "Client Error: Unable to delete"
      [] o = "update" -> "Client Error: Unable to update"
      [] OTHER -> "Client Error: Unable to read"

\* if err != nil { resp.Diagnostics.AddError("Client Error", ...) }
ExecReturned(p) ==
    /\ UNCHANGED notClient
    /\ pc[p] = "ret"
    /\ op[p] \in CrudOps
    /\ LET failed == err[p] # NoError
           what == IF op[p] = "update" /\ call[p].method = "GET"
                   THEN ClientError("read") ELSE ClientError(op[p])
       IN Advance(p, op[p], "ret", <<>>, IF failed THEN {what} ELSE {}, failed)
    /\ UNCHANGED <<op, err, resp, decoded, ctxDone, limVars>>

\* read(ctx, &data, restData, &resp.Diagnostics)
ReadCallback(p, ok) ==
    /\ UNCHANGED notClient
    /\ pc[p] = "read"
    /\ op[p] \in CrudOps
    /\ Advance(p, op[p], "read", <<"map">>,
               IF ok THEN {} ELSE {"Value Conversion Error"}, FALSE)
    /\ UNCHANGED <<op, err, resp, decoded, ctxDone, limVars>>

\* resp.Diagnostics.Append(resp.State.Set(ctx, &data)...)
SetState(p, ok) ==
    /\ UNCHANGED notClient
    /\ pc[p] = "set"
    /\ op[p] \in CrudOps
    /\ Advance(p, op[p], "set", <<"state">>,
               IF ok THEN {} ELSE {"State Error"}, FALSE)
    /\ UNCHANGED <<op, err, resp, decoded, ctxDone, limVars>>

\* ---------------------------------------- organization_config_resource.go
\* The entry of Create, Read, Update or Delete: Read starts with
\* req.State.Get, Create and Update with the GET, Delete has an empty body.
OrganizationConfigBegin(p, o, ok) ==
    /\ UNCHANGED notClient
    /\ pc[p] = "idle"
    /\ op' = [op EXCEPT ![p] = o]
    /\ o # "orgRead" => ok
    /\ Advance(p, o, "begin", IF o = "orgRead" THEN <<"plan">> ELSE <<>>,
               IF ok THEN {} ELSE {"State Error"}, FALSE)
    /\ UNCHANGED <<err, resp, decoded, ctxDone, limVars>>

\* if err != nil { AddError("Client Error", "Unable to read organization" or
\* "Unable to update organization"); return }
OrganizationConfigReturned(p) ==
    /\ UNCHANGED notClient
    /\ pc[p] = "ret"
    /\ op[p] \in OrgOps
    /\ LET failed == err[p] # NoError
           what == IF call[p].method = "PUT"
                   THEN "Client Error: Unable to update organization"
                   ELSE "Client Error: Unable to read organization"
       IN Advance(p, op[p], "ret", <<>>, IF failed THEN {what} ELSE {}, failed)
    /\ UNCHANGED <<op, err, resp, decoded, ctxDone, limVars>>

\* r.read(ctx, orgData, &data, &resp.Diagnostics)
OrganizationConfigRead(p, ok) ==
    /\ UNCHANGED notClient
    /\ pc[p] = "orgread"
    /\ Advance(p, op[p], "orgread", <<"map">>,
               IF ok THEN {} ELSE {"Value Conversion Error"}, FALSE)
    /\ UNCHANGED <<op, err, resp, decoded, ctxDone, limVars>>

\* resp.Diagnostics.Append(req.Plan.Get(ctx, &data)...)
OrganizationConfigPlan(p, ok) ==
    /\ UNCHANGED notClient
    /\ pc[p] = "orgplan"
    /\ Advance(p, op[p], "orgplan", <<"plan">>,
               IF ok THEN {} ELSE {"Plan Error"}, FALSE)
    /\ UNCHANGED <<op, err, resp, decoded, ctxDone, limVars>>

\* r.update(ctx, orgData, &data, &resp.Diagnostics)
OrganizationConfigUpdate(p, ok) ==
    /\ UNCHANGED notClient
    /\ pc[p] = "orgwrite"
    /\ Advance(p, op[p], "orgwrite", <<"write">>,
               IF ok THEN {} ELSE {"Cannot map field"}, FALSE)
    /\ UNCHANGED <<op, err, resp, decoded, ctxDone, limVars>>

\* resp.Diagnostics.Append(resp.State.Set(ctx, &data)...)
OrganizationConfigSetState(p, ok) ==
    /\ UNCHANGED notClient
    /\ pc[p] = "orgset"
    /\ Advance(p, op[p], "orgset", <<"state">>,
               IF ok THEN {} ELSE {"State Error"}, FALSE)
    /\ UNCHANGED <<op, err, resp, decoded, ctxDone, limVars>>

\* ------------------------------------------------- mapper (generic helpers)
\* A Go value held in a map[string]any: its dynamic type and payload. A
\* float64 is n, plus one half when `half` holds.
GoString(x) == [t |-> "string", s |-> x, n |-> 0, half |-> FALSE, b |-> FALSE]
GoInt32(x) == [t |-> "int32", s |-> "", n |-> x, half |-> FALSE, b |-> FALSE]
GoInt64(x) == [t |-> "int64", s |-> "", n |-> x, half |-> FALSE, b |-> FALSE]
GoFloat64(x, h) == [t |-> "float64", s |-> "", n |-> x, half |-> h, b |-> FALSE]
GoBool(x) == [t |-> "bool", s |-> "", n |-> 0, half |-> FALSE, b |-> x]

\* A framework attribute value: its type, whether it is known, null or
\* unknown, and the payload of a known value.
AttrValue(ty, st, x, y, h, z) ==
    [ty |-> ty, st |-> st, s |-> x, n |-> y, half |-> h, b |-> z]
StringValue(x) == AttrValue("String", "known", x, 0, FALSE, FALSE)
Int32Value(x) == AttrValue("Int32", "known", "", x, FALSE, FALSE)
Int64Value(x) == AttrValue("Int64", "known", "", x, FALSE, FALSE)
Float64Value(x, h) == AttrValue("Float64", "known", "", x, h, FALSE)
BoolValue(x) == AttrValue("Bool", "known", "", 0, FALSE, x)
NullValue(ty) == AttrValue(ty, "null", "", 0, FALSE, FALSE)
UnknownValue(ty) == AttrValue(ty, "unknown", "", 0, FALSE, FALSE)

IsUnknown(a) == a.st = "unknown"
IsNull(a) == a.st = "null"

MinInt32 == -2147483647 - 1
MaxInt32 == 2147483647
InInt32(x) == MinInt32 <= x /\ x <= MaxInt32

ConversionError == "Value Conversion Error"

\* tfsdk.ValueFrom(ctx, v, target.Type(ctx), target): the Go value converted
\* to the target's type; ok is FALSE when the type does not accept it.
ValueFrom(g, ty) ==
    CASE g.t = "string" /\ ty = "String" -> [ok |-> TRUE, val |-> StringValue(g.s)]
      [] g.t \in {"int32", "int64"} /\ ty = "Int64" ->
            [ok |-> TRUE, val |-> Int64Value(g.n)]
      [] g.t \in {"int32", "int64"} /\ ty = "Int32" ->
            [ok |-> InInt32(g.n), val |-> Int32Value(g.n)]
      [] g.t \in {"int32", "int64"} /\ ty = "Float64" ->
            [ok |-> TRUE, val |-> Float64Value(g.n, FALSE)]
      [] g.t = "float64" /\ ty = "Float64" ->
            [ok |-> TRUE, val |-> Float64Value(g.n, g.half)]
      [] g.t = "float64" /\ ty = "Int64" ->
            [ok |-> ~g.half, val |-> Int64Value(g.n)]
      [] g.t = "float64" /\ ty = "Int32" ->
            [ok |-> ~g.half /\ InInt32(g.n), val |-> Int32Value(g.n)]
      [] g.t = "bool" /\ ty = "Bool" -> [ok |-> TRUE, val |-> BoolValue(g.b)]
      [] OTHER -> [ok |-> FALSE, val |-> NullValue(ty)]

mapperToOrNull(v, key, target) ==
    IF key \in DOMAIN v
    THEN LET c == ValueFrom(v[key], target.ty)
         IN IF c.ok THEN [target |-> c.val, diags |-> {}]
            ELSE [target |-> target, diags |-> {ConversionError}]
    ELSE [target |-> NullValue(target.ty), diags |-> {}]
\* func (m *mapper) to(key string, target attrTyped): the target after the
\* call, and the diagnostics the call appends.
mapperTo(v, key, target) ==
    IF key \in DOMAIN v
    THEN LET c == ValueFrom(v[key], target.ty)
         IN IF c.ok THEN [target |-> c.val, diags |-> {}]
            ELSE [target |-> target, diags |-> {ConversionError}]
    ELSE [target |-> target, diags |-> {}]

\* m.v[target] = x
MapSet(v, key, x) ==
    [k \in DOMAIN v \cup {key} |-> IF k = key THEN x ELSE v[k]]

mapperFromUnknownAsZero(v, source, target) ==
    IF IsNull(source)
    THEN [v |-> v, diags |-> {}]
    ELSE CASE source.ty = "String" ->
                 [v |-> MapSet(v, target, GoString(source.s)), diags |-> {}]
           [] source.ty = "Int32" ->
                 [v |-> MapSet(v, target, GoInt32(source.n)), diags |-> {}]
           [] source.ty = "Int64" ->
                 [v |-> MapSet(v, target, GoInt64(source.n)), diags |-> {}]
           [] source.ty = "Float64" ->
                 [v |-> MapSet(v, target, GoFloat64(source.n, source.half)),
                  diags |-> {}]
           [] source.ty = "Bool" ->
                 [v |-> MapSet(v, target, GoBool(source.b)), diags |-> {}]
           [] OTHER -> [v |-> v, diags |-> {"Cannot map field " \o target}]
mapperFromNullAsZero(v, source, target) ==
    IF IsUnknown(source)
    THEN [v |-> v, diags |-> {}]
    ELSE CASE source.ty = "String" ->
                 [v |-> MapSet(v, target, GoString(source.s)), diags |-> {}]
           [] source.ty = "Int32" ->
                 [v |-> MapSet(v, target, GoInt32(source.n)), diags |-> {}]
           [] source.ty = "Int64" ->
                 [v |-> MapSet(v, target, GoInt64(source.n)), diags |-> {}]
           [] source.ty = "Float64" ->
                 [v |-> MapSet(v, target, GoFloat64(source.n, source.half)),
                  diags |-> {}]
           [] source.ty = "Bool" ->
                 [v |-> MapSet(v, target, GoBool(source.b)), diags |-> {}]
           [] OTHER -> [v |-> v, diags |-> {"Cannot map field " \o target}]
mapperFromTruncating(v, source, target) ==
    IF IsUnknown(source) \/ IsNull(source)
    THEN [v |-> v, diags |-> {}]
    ELSE CASE source.ty = "String" ->
                 [v |-> MapSet(v, target, GoString(source.s)), diags |-> {}]
           [] source.ty \in {"Int32", "Int64", "Float64"} ->
                 [v |-> MapSet(v, target, GoInt64(source.n)), diags |-> {}]
           [] source.ty = "Bool" ->
                 [v |-> MapSet(v, target, GoBool(source.b)), diags |-> {}]
           [] OTHER -> [v |-> v, diags |-> {"Cannot map field " \o target}]
\* func (m *mapper) from(source unknowable, target string): the map after the
\* call, and the diagnostics the call adds.
mapperFrom(v, source, target) ==
    IF IsUnknown(source) \/ IsNull(source)
    THEN [v |-> v, diags |-> {}]
    ELSE CASE source.ty = "String" ->
                 [v |-> MapSet(v, target, GoString(source.s)), diags |-> {}]
           [] source.ty = "Int32" ->
                 [v |-> MapSet(v, target, GoInt32(source.n)), diags |-> {}]
           [] source.ty = "Int64" ->
                 [v |-> MapSet(v, target, GoInt64(source.n)), diags |-> {}]
           [] source.ty = "Float64" ->
                 [v |-> MapSet(v, target, GoFloat64(source.n, source.half)),
                  diags |-> {}]
           [] source.ty = "Bool" ->
                 [v |-> MapSet(v, target, GoBool(source.b)), diags |-> {}]
           [] OTHER -> [v |-> v, diags |-> {"Cannot map field " \o target}]

\* The attribute values a model field may hold: the five scalar kinds, known
\* (with the edges of each range), null and unknown, and a Number, which has
\* none of the five Value methods.
ScalarTypes == {"String", "Int32", "Int64", "Float64", "Bool"}
KnownScalars ==
    {StringValue(x) : x \in {"", "a"}}
        \cup {Int32Value(x) : x \in {MinInt32, 0, MaxInt32}}
        \cup {Int64Value(x) : x \in {MinInt32, -7, MaxInt32}}
        \cup {Float64Value(x, h) : x \in {-3, 0, 1}, h \in BOOLEAN}
        \cup {BoolValue(x) : x \in BOOLEAN}
AttrTypes == ScalarTypes \cup {"Number"}
Attrs ==
    KnownScalars
        \cup {AttrValue("Number", "known", "", 5, FALSE, FALSE)}
        \cup {NullValue(ty) : ty \in AttrTypes}
        \cup {UnknownValue(ty) : ty \in AttrTypes}

MapKeys == {"k", "j"}
EmptyMap == [k \in {} |-> GoString("")]
\* The maps a mapper starts from: make(map[string]any), or a response.
StartMaps == {EmptyMap, [k \in {"k"} |-> GoString("old")],
              [k \in {"k"} |-> GoFloat64(2, FALSE)]}

NoMp == [pc |-> "idle", source |-> NullValue("String"), key |-> "",
         v0 |-> EmptyMap, v |-> EmptyMap, fromDiags |-> {},
         readKey |-> "", target0 |-> NullValue("String"),
         target |-> NullValue("String"), toDiags |-> {}]

\* m := &mapper{v: v0}; m.from(source, key)
MapperFrom(source, key, v0) ==
    /\ mp.pc = "idle"
    /\ LET r == mapperFrom(v0, source, key)
       IN mp' = [mp EXCEPT !.pc = "written", !.source = source, !.key = key,
                           !.v0 = v0, !.v = r.v, !.fromDiags = r.diags]
    /\ UNCHANGED notMapper

\* m.to(readKey, &target) on the map the mapper holds
MapperTo(readKey, target) ==
    /\ mp.pc = "written"
    /\ LET r == mapperTo(mp.v, readKey, target)
       IN mp' = [mp EXCEPT !.pc = "read", !.readKey = readKey,
                           !.target0 = target, !.target = r.target,
                           !.toDiags = r.diags]
    /\ UNCHANGED notMapper

\* ------------------------------------------- custom fields (generic helpers)
\* Go values that are not scalars: nil, and a map[string]any.
GoNil == [t |-> "nil", s |-> "", n |-> 0, half |-> FALSE, b |-> FALSE]
GoMap(m) == [t |-> "map", m |-> m]
NoGoElems == [k \in {} |-> GoNil]

\* A types.Dynamic: st is the state of the dynamic value itself; for a known
\* one, under is the type of the underlying value (Map, Object, or another
\* type), ust that value's state, elemTy a map's element type and elems the
\* elements of a map or the attributes of an object.
NoElems == [k \in {} |-> NullValue("String")]
DynamicUnknown ==
    [st |-> "unknown", under |-> "", ust |-> "", elemTy |-> "", elems |-> NoElems]
DynamicNull ==
    [st |-> "null", under |-> "", ust |-> "", elemTy |-> "", elems |-> NoElems]
DynamicObject(elems) ==
    [st |-> "known", under |-> "Object", ust |-> "known", elemTy |-> "",
     elems |-> elems]
DynamicMap(elemTy, elems) ==
    [st |-> "known", under |-> "Map", ust |-> "known", elemTy |-> elemTy,
     elems |-> elems]
DynamicMapNull(elemTy) ==
    [st |-> "known", under |-> "Map", ust |-> "null", elemTy |-> elemTy,
     elems |-> NoElems]
DynamicMapUnknown(elemTy) ==
    [st |-> "known", under |-> "Map", ust |-> "unknown", elemTy |-> elemTy,
     elems |-> NoElems]
DynamicString(x) ==
    [st |-> "known", under |-> "String", ust |-> "known", elemTy |-> "",
     elems |-> [k \in {"value"} |-> StringValue(x)]]

InvalidCustomFields == "Invalid custom fields"
InvalidCustomFieldValue == "Invalid custom field value"

\* m.v["customFields"], nil when the key is absent
CustomFieldsOf(v) ==
    IF "customFields" \in DOMAIN v THEN v["customFields"] ELSE GoNil

\* reflect.FromValue into a DynamicType element, as types.MapValueFrom does
\* for each element: ok is FALSE when the framework refuses the Go value.
DynamicFrom(g) ==
    CASE g.t = "string" -> [ok |-> TRUE, val |-> StringValue(g.s)]
      [] g.t = "float64" ->
            [ok |-> TRUE, val |-> AttrValue("Number", "known", "", g.n, g.half, FALSE)]
      [] g.t = "bool" -> [ok |-> TRUE, val |-> BoolValue(g.b)]
      [] OTHER -> [ok |-> FALSE, val |-> NullValue("Dynamic")]

\* types.MapValueFrom(ctx, elemTy, g): the map value and whether the
\* conversion succeeded; nil gives a null map.
MapValueFrom(elemTy, g) ==
    IF g.t = "nil" THEN [ok |-> TRUE, val |-> DynamicMapNull(elemTy)]
    ELSE IF g.t # "map" THEN [ok |-> FALSE, val |-> DynamicMapUnknown(elemTy)]
    ELSE LET conv(k) == IF elemTy = "Dynamic" THEN DynamicFrom(g.m[k])
                        ELSE ValueFrom(g.m[k], elemTy)
         IN IF \A k \in DOMAIN g.m : conv(k).ok
            THEN [ok |-> TRUE,
                  val |-> DynamicMap(elemTy, [k \in DOMAIN g.m |-> conv(k).val])]
            ELSE [ok |-> FALSE, val |-> DynamicMapUnknown(elemTy)]

\* The object customFieldsTo builds in its default branch: the string and
\* float64 entries of cf.
CustomFieldsObject(cf) ==
    LET kept == {k \in DOMAIN cf : cf[k].t \in {"string", "float64"}}
    IN DynamicObject([k \in kept |->
            IF cf[k].t = "string" THEN StringValue(cf[k].s)
            ELSE Float64Value(cf[k].n, cf[k].half)])

\* func (m *mapper) customFieldsTo(target *types.Dynamic): the target after
\* the call and the diagnostics added.
customFieldsTo(v, target) ==
    LET g == CustomFieldsOf(v)
    IN IF target.st = "unknown" \/ (target.st = "known" /\ target.ust = "unknown")
       THEN LET r == MapValueFrom("Dynamic", g)
            IN [target |-> r.val,
                diags |-> IF r.ok THEN {} ELSE {ConversionError}]
       ELSE IF target.st = "known" /\ target.under = "Map"
       THEN LET r == MapValueFrom(target.elemTy, IF g.t = "map" THEN g ELSE GoNil)
            IN [target |-> r.val,
                diags |-> IF r.ok THEN {} ELSE {ConversionError}]
       ELSE IF g.t = "map"
       THEN [target |-> CustomFieldsObject(g.m),
             diags |-> IF \A k \in DOMAIN g.m : g.m[k].t \in {"string", "float64"}
                       THEN {} ELSE {InvalidCustomFieldValue}]
       ELSE [target |-> DynamicObject(NoElems), diags |-> {}]

\* convertMapValue: the Go value a custom field becomes; nil, with an error,
\* for a value that is neither a string nor a number.
IsStringOrNumber(a) == a.ty \in {"String", "Float64", "Int32", "Int64", "Number"}
convertMapValue(a) ==
    CASE a.ty = "String" -> GoString(a.s)
      [] a.ty = "Float64" -> GoFloat64(a.n, a.half)
      [] a.ty = "Int32" -> GoInt32(a.n)
      [] a.ty = "Int64" -> GoInt64(a.n)
      [] a.ty = "Number" -> GoFloat64(a.n, a.half)
      [] OTHER -> GoNil

\* func (m *mapper) customFieldsFrom(source types.Dynamic): the map after the
\* call and the diagnostics added.
customFieldsFromSkipping(v, source) ==
    IF source.st # "known" \/ source.ust = "null"
    THEN [v |-> MapSet(v, "customFields", GoMap(NoGoElems)), diags |-> {}]
    ELSE LET elements == IF source.under \in {"Map", "Object"}
                         THEN source.elems ELSE NoElems
             kept == {k \in DOMAIN elements : elements[k].ty = "String"}
         IN [v |-> MapSet(v, "customFields",
                          GoMap([k \in kept |-> convertMapValue(elements[k])])),
             diags |-> {}]
customFieldsFrom(v, source) ==
    IF source.st = "unknown"
    THEN [v |-> MapSet(v, "customFields", GoMap(NoGoElems)), diags |-> {}]
    ELSE IF source.st = "null" \/ source.ust = "null"
    THEN [v |-> MapSet(v, "customFields", GoMap(NoGoElems)), diags |-> {}]
    ELSE LET isMap == source.under \in {"Map", "Object"}
             elements == IF isMap THEN source.elems ELSE NoElems
         IN [v |-> MapSet(v, "customFields",
                          GoMap([k \in DOMAIN elements |->
                                    convertMapValue(elements[k])])),
             diags |->
                (IF isMap THEN {} ELSE {InvalidCustomFields})
                   \cup (IF \A k \in DOMAIN elements : IsStringOrNumber(elements[k])
                         THEN {} ELSE {InvalidCustomFieldValue})]

\* --------------------------------------------------- data source Read
\* What one whole call of execute returns: `how` is how far the call gets
\* (the limiter's Wait fails, the transport fails, a response arrives), s the
\* response's status.
ExecOutcomes ==
    { [how |-> "limiter", s |-> 0, decodeOK |-> TRUE],
      [how |-> "transport", s |-> 0, decodeOK |-> TRUE],
      [how |-> "response", s |-> 404, decodeOK |-> TRUE],
      [how |-> "response", s |-> 200, decodeOK |-> FALSE],
      [how |-> "response", s |-> 200, decodeOK |-> TRUE] }
Execute(c, o) ==
    CASE o.how = "limiter" -> otherError("limiter")
      [] o.how = "transport" -> otherError("transport")
      [] OTHER -> ExecResult(c, o.s, "", TRUE, o.decodeOK)

DsKinds == {"product", "aggregation"}
Collection(kind) == IF kind = "product" THEN "/products" ELSE "/aggregations"
NoMatch(kind) ==
    IF kind = "product" THEN "No matching product found"
    ELSE "No matching aggregation found"
MultipleMatch(kind) ==
    IF kind = "product" THEN "Multiple matching products found"
    ELSE "Multiple matching aggregation found"
ListError(kind) == "Client Error: Unable to list products"
GetError(kind) ==
    IF kind = "product" THEN "Client Error: Unable to read product"
    ELSE "Client Error: Unable to read aggregation"

\* The entities the server may hold, as decoded from JSON: one whose name is
\* a number, one with no code.
EntityA == [id |-> GoString("p1"), version |-> GoFloat64(1, FALSE),
            name |-> GoString("a"), code |-> GoString("x")]
EntityB == [id |-> GoString("p2"), version |-> GoFloat64(1, FALSE),
            name |-> GoString("b"), code |-> GoString("x")]
EntityC == [id |-> GoString("p3"), version |-> GoFloat64(2, FALSE),
            name |-> GoString("a"), code |-> GoString("y")]
EntityNumName == [id |-> GoString("p4"), version |-> GoFloat64(1, FALSE),
                  name |-> GoFloat64(7, FALSE), code |-> GoString("x")]
EntityNoCode == [id |-> GoString("p5"), version |-> GoFloat64(1, FALSE),
                 name |-> GoString("a")]
Entities == {EntityA, EntityB, EntityC, EntityNumName, EntityNoCode}
\* response.Data of one page: empty, one entity, or two
PageData == {<<>>} \cup {<<e>> : e \in Entities}
               \cup {<<EntityNumName, EntityA>>, <<EntityA, EntityC>>}
\* response.NextToken; "" also when the key is missing
NextTokens == {"", "t1", "t2"}

\* The data source's configuration: id, name and code are optional.
DsConfigs ==
    [Id : {NullValue("String"), UnknownValue("String"), StringValue("p9")},
     Name : {NullValue("String"), UnknownValue("String"), StringValue("a")},
     Code : {NullValue("String"), UnknownValue("String"), StringValue("x")},
     Version : {NullValue("Int64")}]

IsSet(a) == ~IsUnknown(a) /\ ~IsNull(a)
IsGoString(v, key) == key \in DOMAIN v /\ v[key].t = "string"

\* The body of the loop over response.Data: whether restData is appended to
\* matches (no `continue` is taken).
DsMatchesEither(data, restData) ==
    \/ IsSet(data.Name) /\ IsGoString(restData, "name")
          /\ restData["name"].s = data.Name.s
    \/ IsSet(data.Code) /\ IsGoString(restData, "code")
          /\ restData["code"].s = data.Code.s
    \/ ~IsSet(data.Name) /\ ~IsSet(data.Code)
DsMatches(data, restData) ==
    IF IsSet(data.Name) /\ ~IsGoString(restData, "name") THEN FALSE
    ELSE IF IsSet(data.Name) /\ restData["name"].s # data.Name.s THEN FALSE
    ELSE IF IsSet(data.Code) /\ ~IsGoString(restData, "code") THEN FALSE
    ELSE IF IsSet(data.Code) /\ restData["code"].s # data.Code.s THEN FALSE
    ELSE TRUE

RECURSIVE DsFilter(_, _)
DsFilter(data, page) ==
    IF page = <<>> THEN <<>>
    ELSE (IF DsMatches(data, Head(page)) THEN <<Head(page)>> ELSE <<>>)
            \o DsFilter(data, Tail(page))

\* ProductDataSource.read, AggregationDataSource.read: m.to("id"),
\* m.to("version"), m.to("name"), m.to("code").
DsReadModel(data, restData) ==
    LET i == mapperTo(restData, "id", data.Id)
        w == mapperTo(restData, "version", data.Version)
        n == mapperTo(restData, "name", data.Name)
        c == mapperTo(restData, "code", data.Code)
    IN [data |-> [Id |-> i.target, Version |-> w.target,
                  Name |-> n.target, Code |-> c.target],
        diags |-> i.diags \cup w.diags \cup n.diags \cup c.diags]

NoData == [Id |-> NullValue("String"), Name |-> NullValue("String"),
           Code |-> NullValue("String"), Version |-> NullValue("Int64")]
\* config: the configuration read; data: the model; query: queryParams;
\* pages: the list responses decoded so far; log: the execute calls made;
\* state: the models written with resp.State.Set.
NoDs == [pc |-> "idle", kind |-> "", config |-> NoData, data |-> NoData,
         query |-> NoQuery, matches |-> <<>>, pages |-> <<>>, log |-> <<>>,
         diags |-> {}, state |-> <<>>]

ListCall(kind, query) ==
    [method |-> "GET", path |-> Collection(kind), query |-> query,
     body |-> FALSE, out |-> TRUE]
GetCall(kind, id) ==
    [method |-> "GET", path |-> Collection(kind) \o "/" \o id, query |-> NoQuery,
     body |-> FALSE, out |-> TRUE]

\* req.Config.Get(ctx, &data), then the choice between the two ways to
\* resolve, and the first page's query.
DsBeginByIdIfNoFilter(data) ==
    ~IsUnknown(data.Id) /\ ~IsNull(data.Id) /\ ~IsSet(data.Name)
DsBeginById(data) == ~IsUnknown(data.Id) /\ ~IsNull(data.Id)
DsBegin(kind, config, ok) ==
    /\ ds.pc = "idle"
    /\ ds' = [ds EXCEPT
          !.kind = kind, !.config = config, !.data = config,
          !.diags = IF ok THEN {} ELSE {"Config Error"},
          !.query = [pageSize |-> PageSize, nextToken |-> ""],
          !.pc = IF ~ok THEN "done"
                 ELSE IF DsBeginById(config) THEN "get" ELSE "list"]
    /\ UNCHANGED notDs

\* The GET by id, r.read and resp.State.Set.
DsGetById(o, restData) ==
    /\ ds.pc = "get"
    /\ LET c == GetCall(ds.kind, ds.data.Id.s)
           x == Execute(c, o)
           r == DsReadModel(ds.data, restData)
       IN ds' = IF x # NoError
                THEN [ds EXCEPT
                        !.log = Append(@, c),
                        !.diags = @ \cup {GetError(ds.kind)},
                        !.pc = "done"]
                ELSE [ds EXCEPT
                        !.log = Append(@, c),
                        !.data = r.data,
                        !.diags = @ \cup r.diags,
                        !.state = Append(@, r.data),
                        !.pc = "done"]
    /\ UNCHANGED notDs

\* The query of the page after one whose nextToken is `next`.
DsNextQueryFirst(query, next) == [query EXCEPT !.nextToken = ""]
DsNextQuery(query, next) == [query EXCEPT !.nextToken = next]

\* One turn of the list loop: the page request, the filter over its data,
\* and the break on an empty nextToken.
DsListPage(o, page, next) ==
    /\ ds.pc = "list"
    /\ Len(ds.pages) >= MaxPages => next = ""
    /\ LET c == ListCall(ds.kind, ds.query)
           x == Execute(c, o)
       IN ds' = IF x # NoError
                THEN [ds EXCEPT
                        !.log = Append(@, c),
                        !.diags = @ \cup {ListError(ds.kind)},
                        !.pc = "done"]
                ELSE [ds EXCEPT
                        !.log = Append(@, c),
                        !.pages = Append(@, [data |-> page, next |-> next]),
                        !.matches = @ \o DsFilter(ds.data, page),
                        !.query = IF next = "" THEN @ ELSE DsNextQuery(@, next),
                        !.pc = IF next = "" THEN "check" ELSE "list"]
    /\ UNCHANGED notDs

\* After the loop: len(matches) decides between the two errors and the state
\* write.
DsWritesStateAny(matches) == Len(matches) >= 1
DsWritesState(matches) == ~(Len(matches) = 0) /\ ~(Len(matches) > 1)
DsFinish ==
    /\ ds.pc = "check"
    /\ ds' = IF Len(ds.matches) = 0
             THEN [ds EXCEPT !.diags = @ \cup {NoMatch(ds.kind)}, !.pc = "done"]
             ELSE IF ~DsWritesState(ds.matches)
             THEN [ds EXCEPT !.diags = @ \cup {MultipleMatch(ds.kind)},
                             !.pc = "done"]
             ELSE LET r == DsReadModel(ds.data, ds.matches[1])
                  IN [ds EXCEPT !.data = r.data, !.diags = @ \cup r.diags,
                                !.state = Append(@, r.data), !.pc = "done"]
    /\ UNCHANGED notDs

\* ------------------------------------------ resources, with their data
\* The resources whose callbacks are modelled: the product, which goes through
\* the generic functions, and the webhook destination, which has its own
\* Create, Read, Update and Delete.
RsKinds == {"product", "webhook"}
RsPath(kind) ==
    IF kind = "product" THEN "/products" ELSE "/integrationdestinations/webhooks"
RsName(kind) == IF kind = "product" THEN "product" ELSE "webhook destination"

\* url.PathEscape on the ids drawn: "/" becomes "%2F".
Ids == {"p1", "a/b"}
PathEscapeNone(id) == id
PathEscape(id) == IF id = "a/b" THEN "a%2Fb" ELSE id

\* The execute call made from step `at`, for the model whose id is `id`.
RsCallOf(kind, o, at, id) ==
    [CallOf(o, at) EXCEPT
        !.path = IF o = "create" THEN RsPath(kind)
                 ELSE RsPath(kind) \o "/" \o PathEscape(id)]

\* fmt.Sprintf("Unable to <verb> <name>, got error: %s", name, err) under the
\* summary "Client Error"
RsClientError(kind, o, method) ==
    (IF o = "update" /\ method = "GET" THEN ClientError("read") ELSE ClientError(o))
        \o " " \o RsName(kind)

\* ProductResource.write
ProductResourceWriteFresh(data, restData) ==
    LET a == mapperFrom(EmptyMap, data.Id, "id")
        b == mapperFrom(a.v, data.Version, "version")
        c == mapperFrom(b.v, data.Name, "name")
        d == mapperFrom(c.v, data.Code, "code")
        e == customFieldsFrom(d.v, data.CustomFields)
    IN [v |-> e.v,
        diags |-> a.diags \cup b.diags \cup c.diags \cup d.diags \cup e.diags]
ProductResourceWrite(data, restData) ==
    LET a == mapperFrom(restData, data.Id, "id")
        b == mapperFrom(a.v, data.Version, "version")
        c == mapperFrom(b.v, data.Name, "name")
        d == mapperFrom(c.v, data.Code, "code")
        e == customFieldsFrom(d.v, data.CustomFields)
    IN [v |-> e.v,
        diags |-> a.diags \cup b.diags \cup c.diags \cup d.diags \cup e.diags]

\* ProductResource.read
ProductResourceRead(data, restData) ==
    LET i == mapperTo(restData, "id", data.Id)
        w == mapperTo(restData, "version", data.Version)
        n == mapperTo(restData, "name", data.Name)
        c == mapperTo(restData, "code", data.Code)
        f == customFieldsTo(restData, data.CustomFields)
    IN [data |-> [Id |-> i.target, Version |-> w.target, Name |-> n.target,
                  Code |-> c.target, CustomFields |-> f.target],
        diags |-> i.diags \cup w.diags \cup n.diags \cup c.diags \cup f.diags]

\* WebhookDestinationResource.write
WebhookDestinationResourceWrite(data, webhookModel) ==
    LET a == mapperFrom(webhookModel, data.Id, "id")
        b == mapperFrom(a.v, data.Version, "version")
        c == mapperFrom(b.v, data.Name, "name")
        d == mapperFrom(c.v, data.Description, "description")
        e == mapperFrom(d.v, data.Url, "url")
        f == mapperFrom(e.v, data.Code, "code")
        g == mapperFrom(f.v, data.Active, "active")
        creds == IF "credentials" \in DOMAIN g.v /\ g.v["credentials"].t = "map"
                 THEN g.v["credentials"].m ELSE NoGoElems
        k == mapperFrom(creds, data.Credentials.api_key, "apiKey")
        s == mapperFrom(k.v, data.Credentials.secret, "secret")
        t == MapSet(s.v, "type", GoString("M3TER_SIGNED_REQUEST"))
        u == MapSet(t, "empty", GoBool(FALSE))
    IN [v |-> MapSet(g.v, "credentials", GoMap(u)),
        diags |-> a.diags \cup b.diags \cup c.diags \cup d.diags \cup e.diags
                     \cup f.diags \cup g.diags \cup k.diags \cup s.diags]

\* WebhookDestinationResource.read
WebhookDestinationResourceReadAll(data, webhookModel) ==
    LET i == mapperTo(webhookModel, "id", data.Id)
        w == mapperTo(webhookModel, "version", data.Version)
        n == mapperTo(webhookModel, "name", data.Name)
        d == mapperTo(webhookModel, "description", data.Description)
        u == mapperTo(webhookModel, "url", data.Url)
        c == mapperTo(webhookModel, "code", data.Code)
        a == mapperTo(webhookModel, "active", data.Active)
        old == data.Credentials
        creds ==
            IF "credentials" \in DOMAIN webhookModel
                  /\ webhookModel["credentials"].t = "map"
            THEN LET m == webhookModel["credentials"].m
                 IN [api_key |-> mapperTo(m, "apiKey", old.api_key).target,
                     secret |-> mapperTo(m, "secret", old.secret).target]
            ELSE old
    IN [data |-> [Id |-> i.target, Version |-> w.target, Name |-> n.target,
                  Description |-> d.target, Url |-> u.target, Code |-> c.target,
                  Active |-> a.target, Credentials |-> creds],
        diags |-> i.diags \cup w.diags \cup n.diags \cup d.diags \cup u.diags
                     \cup c.diags \cup a.diags]
WebhookDestinationResourceRead(data, webhookModel) ==
    LET i == mapperTo(webhookModel, "id", data.Id)
        w == mapperTo(webhookModel, "version", data.Version)
        n == mapperTo(webhookModel, "name", data.Name)
        d == mapperTo(webhookModel, "description", data.Description)
        u == mapperTo(webhookModel, "url", data.Url)
        c == mapperTo(webhookModel, "code", data.Code)
        a == mapperTo(webhookModel, "active", data.Active)
    IN [data |-> [Id |-> i.target, Version |-> w.target, Name |-> n.target,
                  Description |-> d.target, Url |-> u.target, Code |-> c.target,
                  Active |-> a.target, Credentials |-> data.Credentials],
        diags |-> i.diags \cup w.diags \cup n.diags \cup d.diags \cup u.diags
                     \cup c.diags \cup a.diags]

RsWrite(kind, data, restData) ==
    IF kind = "product" THEN ProductResourceWrite(data, restData)
    ELSE WebhookDestinationResourceWrite(data, restData)
RsRead(kind, data, restData) ==
    IF kind = "product" THEN ProductResourceRead(data, restData)
    ELSE WebhookDestinationResourceRead(data, restData)

\* The control flow of the webhook destination's own Create, Read, Update and
\* Delete, step by step as for the generic functions.
WebhookDestinationNext(o, at, hasError, execFailed, method) ==
    CASE at = "plan" /\ o = "create" -> IF hasError THEN "done" ELSE "write"
      [] at = "plan" /\ o # "create" -> IF hasError THEN "done" ELSE "call"
      [] at = "write" -> IF hasError THEN "done" ELSE "call"
      [] at = "ret" /\ o = "create" -> "read"
      [] at = "ret" /\ o = "read" -> IF execFailed THEN "done" ELSE "read"
      [] at = "ret" /\ o = "update" /\ method = "GET" ->
            IF execFailed THEN "done" ELSE "write"
      [] at = "ret" /\ o = "update" /\ method = "PUT" -> "read"
      [] at = "read" /\ o = "read" -> "set"
      [] at = "read" /\ o # "read" -> IF hasError THEN "done" ELSE "set"
      [] OTHER -> "done"

RsNextStep(kind, o, at, hasError, execFailed, method) ==
    IF kind = "product" THEN NextStep(o, at, hasError, execFailed, method)
    ELSE WebhookDestinationNext(o, at, hasError, execFailed, method)

\* The plans (or prior states) drawn for a product.
CustomFieldsDrawn ==
    {DynamicUnknown, DynamicNull,
     DynamicObject([k \in {"a"} |-> StringValue("x")]),
     DynamicMap("String", [k \in {"a"} |-> StringValue("x")]),
     DynamicObject([k \in {"a", "n"} |->
                       IF k = "a" THEN BoolValue(TRUE) ELSE Int64Value(4)]),
     DynamicString("x")}
ProductModels ==
    [Id : {UnknownValue("String")} \cup {StringValue(i) : i \in Ids},
     Version : {UnknownValue("Int64"), Int64Value(1)},
     Name : {StringValue("n")},
     Code : {StringValue("c"), NullValue("String")},
     CustomFields : CustomFieldsDrawn]
CredentialsDrawn == [api_key |-> StringValue("key"), secret |-> StringValue("s3")]
WebhookModels ==
    [Id : {UnknownValue("String")} \cup {StringValue(i) : i \in Ids},
     Version : {UnknownValue("Int64"), Int64Value(1)},
     Name : {StringValue("n")},
     Description : {StringValue("d")},
     Url : {StringValue("u")},
     Code : {StringValue("c")},
     Active : {UnknownValue("Bool"), BoolValue(TRUE)},
     Credentials : {CredentialsDrawn}]
RsModels(kind) == IF kind = "product" THEN ProductModels ELSE WebhookModels

\* The bodies the server may answer with, as decoded from JSON.
GoRecord(r) == [k \in DOMAIN r |-> r[k]]
ProductResponses ==
    { EmptyMap,
      GoRecord([id |-> GoString("p1"), version |-> GoFloat64(2, FALSE),
                name |-> GoString("n2"), code |-> GoString("c2"),
                customFields |->
                    GoMap([k \in {"a", "n"} |->
                              IF k = "a" THEN GoString("y")
                              ELSE GoFloat64(3, TRUE)])]),
      GoRecord([id |-> GoString("p1"), version |-> GoFloat64(2, FALSE),
                name |-> GoString("n2")]),
      GoRecord([id |-> GoString("p1"), version |-> GoFloat64(3, FALSE),
                name |-> GoString("n3"), code |-> GoString("c3"),
                dtCreated |-> GoString("2024-01-01"),
                customFields |-> GoMap([k \in {"b"} |-> GoString("z")])]),
      GoRecord([id |-> GoString("p1"), version |-> GoFloat64(2, FALSE),
                customFields |-> GoMap([k \in {"a"} |-> GoBool(TRUE)])]),
      GoRecord([id |-> GoString("p1"), version |-> GoString("two"),
                customFields |-> GoString("none")]) }
WebhookResponses ==
    { EmptyMap,
      GoRecord([id |-> GoString("p1"), version |-> GoFloat64(2, FALSE),
                name |-> GoString("n2"), active |-> GoBool(FALSE),
                credentials |->
                    GoMap([k \in {"apiKey", "secret"} |->
                              IF k = "apiKey" THEN GoString("key2")
                              ELSE GoString("masked")])]),
      GoRecord([id |-> GoString("p1"), version |-> GoFloat64(2, FALSE),
                credentials |-> GoString("hidden")]),
      GoRecord([id |-> GoString("p1"), version |-> GoFloat64(2, FALSE),
                url |-> GoString("u2")]) }
RsResponses(kind) == IF kind = "product" THEN ProductResponses ELSE WebhookResponses

\* plan: the plan or prior state read; data: the model; restData: the map
\* the write callback filled; call: the execute call about to be made; log:
\* the calls made, each with the body sent, the outcome and the body decoded;
\* state: the models written with resp.State.Set; remote: the version of the
\* entity as the server holds it.
NoRs == [pc |-> "idle", kind |-> "", op |-> "", plan |-> <<>>, data |-> <<>>,
         restData |-> EmptyMap, call |-> NoCall, log |-> <<>>, diags |-> {},
         state |-> <<>>, remote |-> 1]

\* req.Plan.Get or req.State.Get, then the steps up to the first execute call.
RsBegin(kind, o, plan, ok) ==
    /\ rs.pc = "idle"
    /\ LET d0 == IF ok THEN {} ELSE {"Plan Error"}
           s1 == RsNextStep(kind, o, "plan", d0 # {}, FALSE, "")
           w == RsWrite(kind, plan, EmptyMap)
           d1 == IF s1 = "write" THEN d0 \cup w.diags ELSE d0
           s2 == IF s1 = "write"
                 THEN RsNextStep(kind, o, "write", d1 # {}, FALSE, "") ELSE s1
       IN rs' = [rs EXCEPT
             !.kind = kind, !.op = o, !.plan = plan, !.data = plan,
             !.restData = IF s1 = "write" THEN w.v ELSE EmptyMap,
             !.diags = d1,
             !.call = IF s2 = "call"
                      THEN RsCallOf(kind, o, IF s1 = "write" THEN "write" ELSE "plan",
                                    plan.Id.s)
                      ELSE NoCall,
             !.pc = IF s2 = "call" THEN "call" ELSE "done"]
    /\ UNCHANGED notRs

\* One execute call returns; the function goes on to its next call or to its
\* end: the error diagnostic, the write or read callback, the state write.
RsReturn(o, response) ==
    /\ rs.pc = "call"
    /\ LET c == rs.call
           failed == Execute(c, o) # NoError
           got == IF failed \/ ~c.out THEN EmptyMap ELSE response
           entry == [call |-> c, body |-> IF c.body THEN rs.restData ELSE EmptyMap,
                     failed |-> failed, got |-> got]
           d1 == rs.diags
                    \cup (IF failed THEN {RsClientError(rs.kind, rs.op, c.method)}
                          ELSE {})
           s1 == RsNextStep(rs.kind, rs.op, "ret", d1 # {}, failed, c.method)
           w == RsWrite(rs.kind, rs.data, got)
           r == RsRead(rs.kind, rs.data, got)
           d2 == CASE s1 = "write" -> d1 \cup w.diags
                   [] s1 = "read" -> d1 \cup r.diags
                   [] OTHER -> d1
           s2 == IF s1 = "done" THEN "done"
                 ELSE RsNextStep(rs.kind, rs.op, s1, d2 # {}, FALSE, c.method)
       IN rs' = [rs EXCEPT
             !.log = Append(@, entry),
             !.diags = d2,
             !.restData = IF s1 = "write" THEN w.v ELSE @,
             !.data = IF s1 = "read" THEN r.data ELSE @,
             !.state = IF s2 = "set" THEN Append(@, r.data) ELSE @,
             !.call = IF s2 = "call"
                      THEN RsCallOf(rs.kind, rs.op, "write", rs.data.Id.s)
                      ELSE NoCall,
             !.pc = IF s2 = "call" THEN "call" ELSE "done"]
    /\ UNCHANGED notRs

\* The entity the server answers a GET or a PUT with: the one it holds.
RemoteProduct(version) ==
    GoRecord([id |-> GoString("p1"), version |-> GoFloat64(version, FALSE),
              name |-> GoString("n2"), code |-> GoString("c2"),
              dtCreated |-> GoString("2024-01-01")])

\* Another client of the API writes the entity while this operation is
\* between two of its execute calls or before its first: the server's
\* version goes up.
RsOtherWriter ==
    /\ rs.pc = "call"
    /\ rs.remote <= MaxWrites
    /\ rs' = [rs EXCEPT !.remote = @ + 1]
    /\ UNCHANGED notRs

\* An execute call returns what the server holds at that moment.
RsReturnRemote(o) == RsReturn(o, RemoteProduct(rs.remote))

\* ------------------------------------------------------ provider.go
\* The three settings of M3terProviderModel, the environment variable and the
\* attribute path of each.
Settings == {"OrganizationID", "AccessKey", "SecretKey"}
EnvName ==
    [OrganizationID |-> "M3TER_ORGANIZATION_ID", AccessKey |-> "M3TER_ACCESS_KEY",
     SecretKey |-> "M3TER_SECRET_KEY"]
\* resp.Diagnostics.AddAttributeError(path.Root(...), summary, ...): the
\* unknown secret key is reported on the organization_id path.
UnknownError(f) ==
    CASE f = "OrganizationID" ->
            [path |-> "organization_id", summary |-> "Unknown M3ter Organization ID"]
      [] f = "AccessKey" ->
            [path |-> "access_key", summary |-> "Unknown M3ter Access Key"]
      [] f = "SecretKey" ->
            [path |-> "organization_id", summary |-> "Unknown M3ter Secret Key"]
MissingError(f) ==
    CASE f = "OrganizationID" ->
            [path |-> "organization_id", summary |-> "Missing M3ter Organization ID"]
      [] f = "AccessKey" ->
            [path |-> "access_key", summary |-> "Missing M3ter Access Key"]
      [] f = "SecretKey" ->
            [path |-> "secret_key", summary |-> "Missing M3ter Secret Key"]
ConfigGetError == [path |-> "", summary |-> "Config Error"]

\* x := os.Getenv(...); if !data.X.IsNull() { x = data.X.ValueString() }
ResolveNonEmpty(c, e) == IF ~IsNull(c) /\ c.s # "" THEN c.s ELSE e
Resolve(c, e) == IF ~IsNull(c) THEN c.s ELSE e

\* The second `if resp.Diagnostics.HasError() { return }`: whether Configure
\* goes on to build the client.
BuildsClientUnchecked(missing) == TRUE
BuildsClient(missing) == missing = {}

\* The configurations and environments drawn.
ProviderConfigs ==
    [Settings -> {NullValue("String"), UnknownValue("String"),
                  StringValue(""), StringValue("v")}]
Environments == [{EnvName[f] : f \in Settings} -> {"", "e"}]

NoClient == [set |-> FALSE, organizationID |-> "", ClientID |-> "",
             ClientSecret |-> "", rate |-> 0, burst |-> 0]
NoPv == [pc |-> "idle", ok |-> TRUE,
         data |-> [f \in Settings |-> NullValue("String")],
         env |-> [n \in {EnvName[f] : f \in Settings} |-> ""],
         diags |-> {}, ResourceData |-> NoClient, DataSourceData |-> NoClient]

\* func (p *M3terProvider) Configure
Configure(data, env, ok) ==
    /\ pv.pc = "idle"
    /\ LET unknown == {UnknownError(f) : f \in {g \in Settings : IsUnknown(data[g])}}
           resolved == [f \in Settings |-> Resolve(data[f], env[EnvName[f]])]
           missing == {MissingError(f) : f \in {g \in Settings : resolved[g] = ""}}
           client == [set |-> TRUE,
                      organizationID |-> resolved["OrganizationID"],
                      ClientID |-> resolved["AccessKey"],
                      ClientSecret |-> resolved["SecretKey"],
                      rate |-> Rate, burst |-> Burst]
           start == [pv EXCEPT !.pc = "done", !.ok = ok, !.data = data, !.env = env]
       IN pv' = IF ~ok THEN [start EXCEPT !.diags = {ConfigGetError}]
                ELSE IF unknown # {} THEN [start EXCEPT !.diags = unknown]
                ELSE IF ~BuildsClient(missing) THEN [start EXCEPT !.diags = missing]
                ELSE [start EXCEPT !.diags = missing,
                                   !.DataSourceData = client,
                                   !.ResourceData = client]
    /\ UNCHANGED notPv

\* ------------------------------------------- ProductResource.ImportState
\* The products the server holds, page by page: every product on at most one
\* page, the last page the only one without a next token.
ImportProduct1 == [id |-> "p1", code |-> "c1"]
ImportProduct2 == [id |-> "p2", code |-> "c2"]
ImportPages ==
    {<<>>, <<ImportProduct1>>, <<ImportProduct2>>, <<ImportProduct1, ImportProduct2>>}
OnPage(page) == {page[i] : i \in DOMAIN page}
Catalogs ==
    {c \in UNION {[1..n -> ImportPages] : n \in 1..(MaxPages + 1)} :
        \A i, j \in DOMAIN c : i # j => OnPage(c[i]) \cap OnPage(c[j]) = {}}
\* req.ID: a product's code, a product's id, neither.
ImportIds == {"c2", "p1", "zz"}
PageTokens == <<"t1", "t2", "t3">>
\* The key under which the list response carries its token: the product data
\* source decodes "nextToken", ImportState "next_token".
TokenKeys == {"nextToken", "next_token"}

\* The list endpoint: the page the query's nextToken names (the first page
\* without one) and the token of the page after it.
ServerList(catalog, query, key) ==
    LET i == IF query.nextToken = "" THEN 1
             ELSE 1 + CHOOSE j \in DOMAIN PageTokens : PageTokens[j] = query.nextToken
    IN [data |-> catalog[i], key |-> key,
        token |-> IF i < Len(catalog) THEN PageTokens[i] ELSE ""]
\* json.Decode into productListResponse: NextToken is tagged json:"next_token".
ImportDecode(json) ==
    [Data |-> json.data,
     NextToken |-> IF json.key = "next_token" THEN json.token ELSE ""]
\* for _, product := range productListResponse.Data { if product.Code ==
\* req.ID ...: the id of the first such product, "" when there is none.
RECURSIVE FirstWithCode(_, _)
FirstWithCode(page, code) ==
    IF page = <<>> THEN ""
    ELSE IF Head(page).code = code THEN Head(page).id
    ELSE FirstWithCode(Tail(page), code)
\* The query argument of the list call: nil, whatever urlValues holds.
ImportListQuery(urlValues) == NoQuery

\* id: req.ID; catalog, key: the server; urlValues: the loop's url.Values;
\* err1: what the GET by id returned; log: the execute calls made; stateId:
\* the id attribute of the state ("" while unset).
NoIm == [pc |-> "idle", id |-> "", catalog |-> <<>>, key |-> "",
         urlValues |-> NoQuery, err1 |-> NoError, log |-> <<>>, diags |-> {},
         stateId |-> ""]

ImBegin(id, catalog, key) ==
    /\ im.pc = "idle"
    /\ im' = [im EXCEPT !.pc = "get", !.id = id, !.catalog = catalog, !.key = key]
    /\ UNCHANGED notIm

\* GET /products/<req.ID>; on a 404 status the list loop starts, on anything
\* else resource.ImportStatePassthroughID sets id to req.ID. The server
\* answers 404 exactly when no product has that id.
ImGetById(o) ==
    /\ im.pc = "get"
    /\ o.how = "response"
          => (o.s = 404 <=> \A i \in DOMAIN im.catalog :
                               \A q \in OnPage(im.catalog[i]) : q.id # im.id)
    /\ LET c == GetCall("product", PathEscape(im.id))
           x == Execute(c, o)
       IN im' = IF x.kind = "status" /\ x.code = 404
                THEN [im EXCEPT
                        !.log = Append(@, c), !.err1 = x,
                        !.urlValues = [pageSize |-> PageSize, nextToken |-> ""],
                        !.pc = "list"]
                ELSE [im EXCEPT
                        !.log = Append(@, c), !.err1 = x,
                        !.stateId = im.id, !.pc = "done"]
    /\ UNCHANGED notIm

\* One turn of the loop: GET /products, the search of the page for the code,
\* the break on an empty NextToken; after the loop "Product not found" and
\* resource.ImportStatePassthroughID.
ImListPage(o) ==
    /\ im.pc = "list"
    /\ Len(im.log) <= MaxCalls
    /\ LET c == ListCall("product", ImportListQuery(im.urlValues))
           x == Execute(c, o)
           r == ImportDecode(ServerList(im.catalog, c.query, im.key))
           hit == FirstWithCode(r.Data, im.id)
       IN im' = IF x # NoError
                THEN [im EXCEPT
                        !.log = Append(@, c),
                        !.diags = @ \cup {"Failed to list products"},
                        !.pc = "done"]
                ELSE IF hit # ""
                THEN [im EXCEPT
                        !.log = Append(@, c), !.stateId = hit, !.pc = "done"]
                ELSE IF r.NextToken = ""
                THEN [im EXCEPT
                        !.log = Append(@, c),
                        !.diags = @ \cup {"Product not found"},
                        !.stateId = im.id, !.pc = "done"]
                ELSE [im EXCEPT
                        !.log = Append(@, c),
                        !.urlValues = [@ EXCEPT !.nextToken = r.NextToken]]
    /\ UNCHANGED notIm

\* Any caller of execute, with the arguments the provider's callers pass.
ExecCalls == {CallOf(o, at) : o \in CrudOps, at \in {"plan", "write"}}
SharedCalls == {CallOf("create", "plan"), CallOf("read", "plan")}

CallExecute(p, c) ==
    /\ UNCHANGED notClient
    /\ pc[p] = "idle"
    /\ op' = [op EXCEPT ![p] = "execute"]
    /\ call' = [call EXCEPT ![p] = c]
    /\ pc' = [pc EXCEPT ![p] = "call"]
    /\ UNCHANGED <<err, resp, decoded, log, diags, ctxDone, limVars>>

\* ------------------------------------------------------------ specification
\* M3terProvider.Configure: one client, one limiter with a full bucket, shared
\* by every resource and data source.
Init ==
    /\ pc = [p \in Procs |-> "idle"]
    /\ op = [p \in Procs |-> ""]
    /\ call = [p \in Procs |-> NoCall]
    /\ err = [p \in Procs |-> NoError]
    /\ resp = [p \in Procs |-> NoResp]
    /\ decoded = [p \in Procs |-> FALSE]
    /\ log = [p \in Procs |-> <<>>]
    /\ diags = [p \in Procs |-> {}]
    /\ ctxDone = [p \in Procs |-> FALSE]
    /\ tokens = Burst
    /\ waitLeft = [p \in Procs |-> 0]
    /\ lastLeft = 0
    /\ ticks = 0
    /\ sent = 0
    /\ ds = NoDs
    /\ mp = NoMp
    /\ rs = NoRs
    /\ pv = NoPv
    /\ im = NoIm

\* Two operations at a time run the generic functions.
CrudProcs == {p \in Procs : p <= 2}

\* The state after Configure, or after earlier calls have emptied the bucket.
InitExecute ==
    /\ pc = [p \in Procs |-> "idle"]
    /\ op = [p \in Procs |-> ""]
    /\ call = [p \in Procs |-> NoCall]
    /\ err = [p \in Procs |-> NoError]
    /\ resp = [p \in Procs |-> NoResp]
    /\ decoded = [p \in Procs |-> FALSE]
    /\ log = [p \in Procs |-> <<>>]
    /\ diags = [p \in Procs |-> {}]
    /\ ctxDone = [p \in Procs |-> FALSE]
    /\ tokens \in 0..Burst
    /\ waitLeft = [p \in Procs |-> 0]
    /\ lastLeft = 0
    /\ ticks = 0
    /\ sent = 0
    /\ ds = NoDs
    /\ mp = NoMp
    /\ rs = NoRs
    /\ pv = NoPv
    /\ im = NoIm

Next ==
    \/ \E p \in CrudProcs, o \in CrudOps, ok \in BOOLEAN : Begin(p, o, ok)
    \/ \E p \in Procs, ok \in BOOLEAN : WriteCallback(p, ok)
    \/ \E p \in Procs : ExecWait(p)
    \/ \E p \in Procs : LimiterTimer(p)
    \/ \E p \in Procs : LimiterCancel(p)
    \/ \E p \in Procs : CtxCancel(p)
    \/ Tick
    \/ \E p \in Procs : ExecSend(p)
    \/ \E p \in Procs : ExecTransportError(p)
    \/ \E p \in Procs, s \in {200, 404}, ok \in BOOLEAN :
          ExecRespond(p, s, "", TRUE, ok)
    \/ \E p \in Procs : ExecReturned(p)
    \/ \E p \in Procs, ok \in BOOLEAN : ReadCallback(p, ok)
    \/ \E p \in Procs, ok \in BOOLEAN : SetState(p, ok)

Spec == Init /\ [][Next]_vars

\* Every operation in flight calls execute on the one shared client.
NextShared ==
    \/ \E p \in Procs, c \in SharedCalls : CallExecute(p, c)
    \/ \E p \in Procs : ExecWait(p)
    \/ \E p \in Procs : LimiterTimer(p)
    \/ \E p \in Procs : LimiterCancel(p)
    \/ \E p \in Procs : CtxCancel(p)
    \/ Tick
    \/ \E p \in Procs : ExecSend(p)
    \/ \E p \in Procs : ExecTransportError(p)
    \/ \E p \in Procs, s \in {200, 404} : ExecRespond(p, s, "", TRUE, TRUE)

SpecShared == Init /\ [][NextShared]_vars

\* One call of execute, over every response the server may give.
NextExecute ==
    \/ \E c \in ExecCalls : CallExecute(1, c)
    \/ ExecWait(1)
    \/ LimiterTimer(1)
    \/ LimiterCancel(1)
    \/ CtxCancel(1)
    \/ Tick
    \/ ExecSend(1)
    \/ ExecTransportError(1)
    \/ \E s \in Statuses, b \in Bodies, readOK \in BOOLEAN, decodeOK \in BOOLEAN :
          ExecRespond(1, s, b, readOK, decodeOK)

SpecExecute == InitExecute /\ [][NextExecute]_vars

\* One Read of a data source, over every configuration and every server.
NextDs ==
    \/ \E kind \in DsKinds, config \in DsConfigs, ok \in BOOLEAN :
          DsBegin(kind, config, ok)
    \/ \E o \in ExecOutcomes, restData \in Entities : DsGetById(o, restData)
    \/ \E o \in ExecOutcomes, page \in PageData, next \in NextTokens :
          DsListPage(o, page, next)
    \/ DsFinish

SpecDs == Init /\ [][NextDs]_vars

\* One mapper: a from into a map, then a to out of it, over every attribute
\* value, key and starting map.
NextMapper ==
    \/ \E source \in Attrs, key \in MapKeys, v0 \in StartMaps :
          MapperFrom(source, key, v0)
    \/ \E readKey \in MapKeys, target \in Attrs : MapperTo(readKey, target)

SpecMapper == Init /\ [][NextMapper]_vars

\* One operation on a resource, over every plan and every server.
NextResource ==
    \/ \E kind \in RsKinds, o \in CrudOps, ok \in BOOLEAN :
          \E plan \in RsModels(kind) : RsBegin(kind, o, plan, ok)
    \/ \E o \in ExecOutcomes : \E response \in RsResponses(rs.kind) :
          RsReturn(o, response)

SpecResource == Init /\ [][NextResource]_vars

\* One update of a product while another client writes the same product.
NextConcurrent ==
    \/ \E plan \in ProductModels, ok \in BOOLEAN :
          RsBegin("product", "update", plan, ok)
    \/ \E o \in ExecOutcomes : RsReturnRemote(o)
    \/ RsOtherWriter

SpecConcurrent == Init /\ [][NextConcurrent]_vars

\* One operation on the organization config resource, its requests going
\* through the client and its limiter.
NextOrganization ==
    \/ \E o \in OrgOps, ok \in BOOLEAN : OrganizationConfigBegin(1, o, ok)
    \/ ExecWait(1)
    \/ LimiterTimer(1)
    \/ LimiterCancel(1)
    \/ CtxCancel(1)
    \/ Tick
    \/ ExecSend(1)
    \/ ExecTransportError(1)
    \/ \E s \in {200, 404}, ok \in BOOLEAN : ExecRespond(1, s, "", TRUE, ok)
    \/ OrganizationConfigReturned(1)
    \/ \E ok \in BOOLEAN : OrganizationConfigRead(1, ok)
    \/ \E ok \in BOOLEAN : OrganizationConfigPlan(1, ok)
    \/ \E ok \in BOOLEAN : OrganizationConfigUpdate(1, ok)
    \/ \E ok \in BOOLEAN : OrganizationConfigSetState(1, ok)

SpecOrganization == InitExecute /\ [][NextOrganization]_vars

\* One import of a product, over every import ID and every server.
NextImport ==
    \/ \E id \in ImportIds, catalog \in Catalogs, key \in TokenKeys :
          ImBegin(id, catalog, key)
    \/ \E o \in ExecOutcomes : ImGetById(o)
    \/ \E o \in ExecOutcomes : ImListPage(o)

SpecImport == Init /\ [][NextImport]_vars

\* One Configure, over every configuration and environment.
NextProvider ==
    \E data \in ProviderConfigs, env \in Environments, ok \in BOOLEAN :
        Configure(data, env, ok)

SpecProvider == Init /\ [][NextProvider]_vars

\* The Read runs to its end: every call of execute returns.
SpecDsFair == SpecDs /\ WF_vars(NextDs)

\* ------------------------------------------------------------------ claims
Indices(l) == 1..Len(l)
HttpAt(l) == {i \in Indices(l) : l[i][1] = "http"}
CallsAt(l) == {i \in Indices(l) : l[i][1] = "call"}
StatesAt(l) == {i \in Indices(l) : l[i][1] = "state"}
MapsAt(l) == {i \in Indices(l) : l[i][1] = "map"}

\* The place of a step in "read plan/state, HTTP call(s), map, write state".
StepRank(e) ==
    CASE e[1] = "plan" -> 1
      [] e[1] \in {"write", "call", "token", "http"} -> 2
      [] e[1] = "map" -> 3
      [] e[1] = "state" -> 4

\* C1: in genericCreate, genericRead and genericUpdate the steps run in the
\* order read plan/state, HTTP call(s), map the response, write state; state
\* is written at most once, only as the last step, after an HTTP request and
\* a mapping, and no HTTP request follows the state write.
C1_StepOrder ==
    \A p \in Procs :
        op[p] \in {"create", "read", "update"} =>
            LET l == log[p] IN
            /\ l # <<>> => l[1] = <<"plan">>
            /\ \A i, j \in Indices(l) : i < j => StepRank(l[i]) <= StepRank(l[j])
            /\ Cardinality(StatesAt(l)) <= 1
            /\ \A i \in StatesAt(l) :
                  /\ i = Len(l)
                  /\ pc[p] = "done"
                  /\ \E h \in HttpAt(l) : h < i
                  /\ \E m \in MapsAt(l) : m < i
                  /\ \A h \in HttpAt(l) : h < i

C1_Witness ==
    \E p \in Procs :
        /\ op[p] = "update"
        /\ pc[p] = "done"
        /\ StatesAt(log[p]) # {}
        /\ Cardinality(HttpAt(log[p])) = 2

\* C2: execute returns a statusCodeError exactly when the response's status
\* is below 200 or at least 300; the error carries that status and the body
\* text (empty only when the body could not be read or was empty); for a
\* status in 200..299 no statusCodeError is returned, and only then is the
\* body decoded into responseBody.
C2_StatusClassified ==
    \A p \in Procs :
        pc[p] = "ret" =>
            LET r == resp[p]
                e == err[p]
                answered == r.status # 0
                non2xx == r.status < 200 \/ r.status >= 300
            IN /\ (e.kind = "status") <=> (answered /\ non2xx)
               /\ e.kind = "status" =>
                     /\ e.code = r.status
                     /\ e.body = (IF r.readOK THEN r.body ELSE "")
                     /\ e.body = "" => (~r.readOK \/ r.body = "")
               /\ decoded[p] => (answered /\ r.status \in 200..299)
               /\ (answered /\ r.status \in 200..299 /\ call[p].out) => decoded[p]

C2_Witness ==
    /\ pc[1] = "ret"
    /\ resp[1].status = 300
    /\ err[1] = statusCodeError(300, "oops")

\* C3: there is no retry: between two calls of execute at most one HTTP
\* request is sent whatever the outcome, and no operation sends the same
\* request (method and path) twice.
C3_NoRetry ==
    \A p \in Procs :
        LET l == log[p] IN
        /\ Cardinality(HttpAt(l)) <= Cardinality(CallsAt(l))
        /\ \A i, j \in HttpAt(l) :
              i < j => /\ \E c \in CallsAt(l) : i < c /\ c < j
                       /\ l[i] # l[j]

C3_Witness ==
    \E p \in Procs :
        /\ pc[p] = "done"
        /\ op[p] = "create"
        /\ err[p].kind = "transport"
        /\ Cardinality(HttpAt(log[p])) = 1

\* C4: every call of execute acquires a limiter token before it builds or
\* sends the request, and when the acquisition fails execute returns that
\* error without sending anything.
C4_TokenBeforeRequest ==
    \A p \in Procs :
        LET l == log[p] IN
        /\ \A i \in HttpAt(l) :
              /\ i > 2
              /\ l[i - 1] = TokenEvent
              /\ l[i - 2][1] = "call"
        /\ pc[p] \in {"send", "inflight"} =>
              \E i \in Indices(l) :
                  /\ l[i] = TokenEvent
                  /\ \A c \in CallsAt(l) : c < i
        /\ (pc[p] = "ret" /\ err[p].kind = "limiter") =>
              /\ l # <<>>
              /\ l[Len(l)][1] = "call"

C4_Witness ==
    \E p \in Procs :
        /\ pc[p] = "ret"
        /\ err[p].kind = "limiter"
        /\ op[p] = "update"
        /\ Cardinality(HttpAt(log[p])) = 1
        /\ Cardinality(CallsAt(log[p])) = 2

\* C5: the one limiter, of burst 1, is shared by all operations: the bucket
\* never holds more than one token, and under any interleaving every HTTP
\* request has consumed a token of its own, so no more requests have been
\* sent than tokens have existed (the first one and one per refill).
C5_SharedLimiter ==
    /\ tokens <= 1
    /\ sent <= 1 + ticks
    /\ Cardinality({p \in Procs : pc[p] \in {"send", "inflight"}})
          <= 1 + ticks

\* Two operations at once: the second request left only after a refill.
C5_Witness ==
    /\ sent = 2
    /\ ticks = 1
    /\ \E p, q \in Procs :
          /\ p # q
          /\ pc[p] = "inflight" /\ pc[q] = "inflight"
          /\ CallsAt(log[p]) # {} /\ CallsAt(log[q]) # {}

\* The listed entities of all pages received, in order.
RECURSIVE Listed(_)
Listed(pages) ==
    IF pages = <<>> THEN <<>> ELSE Head(pages).data \o Listed(Tail(pages))

RECURSIVE ListedMatches(_, _)
ListedMatches(data, pages) ==
    IF pages = <<>> THEN <<>>
    ELSE DsFilter(data, Head(pages).data) \o ListedMatches(data, Tail(pages))

ById(config) == config.Id.st = "known"
Unset(a) == a.st \in {"unknown", "null"}
HasString(e, key, x) == key \in DOMAIN e /\ e[key].t = "string" /\ e[key].s = x

\* The filter as the claim states it.
Conjunctive(config, e) ==
    /\ Unset(config.Name) \/ HasString(e, "name", config.Name.s)
    /\ Unset(config.Code) \/ HasString(e, "code", config.Code.s)

DsStarted == ds.pc # "idle" /\ "Config Error" \notin ds.diags
IsListCall(c) ==
    c.method = "GET" /\ c.path \in {"/products", "/aggregations"}

\* C6: with a known, non-null id the Read makes exactly one call, the GET of
\* <collection>/<id>, never lists and applies no filter; otherwise it makes
\* only list requests.
C6_ByIdOrList ==
    DsStarted =>
        IF ById(ds.config)
        THEN /\ \A i \in Indices(ds.log) :
                   /\ ds.log[i].method = "GET"
                   /\ ds.log[i].path = Collection(ds.kind) \o "/" \o ds.config.Id.s
                   /\ ds.log[i].query = NoQuery
             /\ Len(ds.log) <= 1
             /\ ds.pc = "done" => Len(ds.log) = 1
             /\ ds.pages = <<>> /\ ds.matches = <<>>
             /\ NoMatch(ds.kind) \notin ds.diags
             /\ MultipleMatch(ds.kind) \notin ds.diags
             /\ (ds.pc = "done" /\ GetError(ds.kind) \notin ds.diags)
                   => Len(ds.state) = 1
        ELSE \A i \in Indices(ds.log) :
                /\ IsListCall(ds.log[i])
                /\ ds.log[i].path = Collection(ds.kind)
                /\ ds.log[i].query.pageSize # 0

\* A Read by id whose filters the entity does not pass, and state is written.
C6_Witness ==
    /\ ds.pc = "done"
    /\ ById(ds.config)
    /\ ds.config.Name = StringValue("a")
    /\ Len(ds.state) = 1
    /\ ds.state[1].Name = StringValue("b")

\* C7: resolving by filter, state is written only when exactly one listed
\* entity matches; none gives the 'No matching ... found' error and more than
\* one the 'Multiple matching ... found' error, neither writing state.
MatchCount ==
    Cardinality({i \in Indices(Listed(ds.pages)) :
                    Conjunctive(ds.config, Listed(ds.pages)[i])})
LoopEnded ==
    /\ ds.pc = "done"
    /\ ds.pages # <<>>
    /\ ds.pages[Len(ds.pages)].next = ""
    /\ ListError(ds.kind) \notin ds.diags

C7_OneMatchOnly ==
    (DsStarted /\ ~ById(ds.config)) =>
        /\ ds.state # <<>> => (MatchCount = 1 /\ Len(ds.state) = 1)
        /\ LoopEnded =>
              /\ MatchCount = 1 => Len(ds.state) = 1
              /\ MatchCount = 0 =>
                    /\ ds.state = <<>>
                    /\ ds.diags = {NoMatch(ds.kind)}
                    /\ ds.kind = "product" => "No matching product found" \in ds.diags
              /\ MatchCount > 1 =>
                    /\ ds.state = <<>>
                    /\ ds.diags = {MultipleMatch(ds.kind)}
                    /\ ds.kind = "product"
                          => "Multiple matching products found" \in ds.diags

C7_Witness ==
    /\ LoopEnded
    /\ ~ById(ds.config)
    /\ MatchCount = 2
    /\ Len(ds.pages) = 2
    /\ ds.state = <<>>

\* C8: the list loop asks for the first page with pageSize=200 and no
\* nextToken, for each further page with the nextToken of the page before,
\* and stops at the first page whose nextToken is empty; the matches are the
\* matching entities of all pages visited; a failed page request ends the
\* Read with a Client Error and no state; and the loop ends once the server
\* returns an empty nextToken.
C8_Paging ==
    (DsStarted /\ ~ById(ds.config)) =>
        /\ \A i \in Indices(ds.log) :
              ds.log[i] = ListCall(ds.kind,
                             [pageSize |-> 200,
                              nextToken |-> IF i = 1 THEN ""
                                            ELSE ds.pages[i - 1].next])
        /\ \A i \in Indices(ds.pages) : i < Len(ds.pages) => ds.pages[i].next # ""
        /\ ds.pc = "list" =>
              /\ Len(ds.log) = Len(ds.pages)
              /\ ds.pages # <<>> => ds.pages[Len(ds.pages)].next # ""
        /\ ds.pc = "check" =>
              /\ Len(ds.log) = Len(ds.pages)
              /\ ds.pages[Len(ds.pages)].next = ""
        /\ ds.matches = ListedMatches(ds.config, ds.pages)
        /\ ListError(ds.kind) \in ds.diags =>
              /\ ds.pc = "done"
              /\ ds.state = <<>>
              /\ Len(ds.log) = Len(ds.pages) + 1

C8_PagingTerminates ==
    /\ []C8_Paging
    /\ (ds.pc = "list") ~> (ds.pc = "done")

C8_Witness ==
    /\ ds.pc = "done"
    /\ Len(ds.pages) = 2
    /\ ds.pages[1].next = "t2"
    /\ ds.log[2].query.nextToken = "t2"
    /\ Len(ds.matches) = 1
    /\ EntityA \in {ds.pages[1].data[i] : i \in Indices(ds.pages[1].data)}
    /\ Len(ds.state) = 1

\* C9: the filters are conjunctive: a listed entity matches iff (name is
\* unset or the entity's name is a string equal to it) and (code is unset or
\* the entity's code is a string equal to it); with neither set every listed
\* entity matches.
C9_ConjunctiveFilter ==
    (DsStarted /\ ~ById(ds.config)) =>
        /\ LET Test(e) == Conjunctive(ds.config, e)
           IN ds.matches = SelectSeq(Listed(ds.pages), Test)
        /\ (Unset(ds.config.Name) /\ Unset(ds.config.Code))
              => ds.matches = Listed(ds.pages)
        /\ \A e \in Entities : DsMatches(ds.config, e) <=> Conjunctive(ds.config, e)

\* Name and code both set: of two entities with the name, only the one with
\* the code as well has matched.
C9_Witness ==
    /\ ds.config.Name = StringValue("a")
    /\ ds.config.Code = StringValue("x")
    /\ ds.pc = "check"
    /\ Listed(ds.pages) = <<EntityA, EntityC>>
    /\ ds.matches = <<EntityA>>

\* C10: the mapper is a round trip on scalar fields: a known, non-null
\* string, int32, int64, float64 or bool written with from into an empty map
\* under a key and read back with to under that key into an attribute of the
\* same type gives the original value, and neither call adds a diagnostic.
C10_RoundTrip ==
    ( /\ mp.pc = "read"
      /\ mp.source.st = "known"
      /\ mp.source.ty \in {"String", "Int32", "Int64", "Float64", "Bool"}
      /\ mp.v0 = EmptyMap
      /\ mp.readKey = mp.key
      /\ mp.target0.ty = mp.source.ty )
    => /\ mp.target = mp.source
       /\ mp.fromDiags = {}
       /\ mp.toDiags = {}

\* 1.5 written and read back over an unknown float64.
C10_Witness ==
    /\ mp.pc = "read"
    /\ mp.source = Float64Value(1, TRUE)
    /\ mp.v0 = EmptyMap
    /\ mp.readKey = mp.key
    /\ mp.target0 = UnknownValue("Float64")
    /\ mp.target = Float64Value(1, TRUE)

ProductKeys ==
    [Id |-> "id", Version |-> "version", Name |-> "name", Code |-> "code",
     CustomFields |-> "customFields"]
\* A product Create or Update has run to its end and written the model, as
\* its read callback left it, to the state.
ProductMapped ==
    /\ rs.kind = "product"
    /\ rs.op \in {"create", "update"}
    /\ rs.pc = "done"
    /\ rs.log # <<>>
    /\ rs.log[Len(rs.log)].call.method \in {"POST", "PUT"}
    /\ rs.state = <<rs.data>>
LastGot == rs.log[Len(rs.log)].got

RsMade ==
    [i \in 1..Len(rs.log) |-> <<rs.log[i].call.method, rs.log[i].call.path>>]
        \o (IF rs.pc = "call" THEN <<<<rs.call.method, rs.call.path>>>> ELSE <<>>)
\* The item path of a product, written out for each id drawn ("" is
\* ValueString() of an unknown id).
ProductItemPath(id) ==
    CASE id = "p1" -> "/products/p1"
      [] id = "a/b" -> "/products/a%2Fb"
      [] OTHER -> "/products/"
\* The calls C13 gives each generic function.
ProductEndpoints(o, id) ==
    CASE o = "create" -> <<<<"POST", "/products">>>>
      [] o = "read" -> <<<<"GET", ProductItemPath(id)>>>>
      [] o = "update" -> <<<<"GET", ProductItemPath(id)>>, <<"PUT", ProductItemPath(id)>>>>
      [] o = "delete" -> <<<<"DELETE", ProductItemPath(id)>>>>
      [] OTHER -> <<>>
IsPrefix(a, b) == Len(a) <= Len(b) /\ a = SubSeq(b, 1, Len(a))

\* C13: the generic functions touch only the resource's own endpoint:
\* genericCreate calls one POST on the collection path, genericRead one GET,
\* genericUpdate one GET then one PUT, genericDelete one DELETE, each on
\* <path>/<path-escaped id of the model read from plan or state>; no other
\* method or path is used, the calls come in that order, and an operation
\* that ends without an error diagnostic has made all of them.
C13_OwnEndpoint ==
    (rs.kind = "product" /\ rs.pc # "idle")
    => /\ IsPrefix(RsMade, ProductEndpoints(rs.op, rs.plan.Id.s))
       /\ (rs.pc = "done" /\ rs.diags = {})
             => RsMade = ProductEndpoints(rs.op, rs.plan.Id.s)
       /\ \A i \in 1..Len(rs.log) :
             /\ rs.log[i].call.query = NoQuery
             /\ rs.log[i].call.body = (rs.log[i].call.method \in {"POST", "PUT"})

\* An update of the product whose id is "a/b".
C13_Witness ==
    /\ rs.kind = "product"
    /\ rs.op = "update"
    /\ rs.pc = "done"
    /\ rs.plan.Id = StringValue("a/b")
    /\ RsMade = <<<<"GET", "/products/a%2Fb">>, <<"PUT", "/products/a%2Fb">>>>
    /\ rs.state # <<>>

\* The diagnostic C14 expects for a failed call of the product's functions.
ProductClientError(o, method) ==
    CASE o = "create" -> "Client Error: Unable to create product"
      [] o = "update" /\ method = "PUT" -> "Client Error: Unable to update product"
      [] OTHER -> "Client Error: Unable to read product"

\* C14: if an execute call made by genericCreate, genericRead or
\* genericUpdate fails (the limiter, the transport, a non-2xx status or an
\* undecodable body), the operation adds a "Client Error" diagnostic naming
\* the resource and never writes Terraform state.
C14_ClientErrorNoState ==
    (rs.kind = "product" /\ rs.op \in {"create", "read", "update"})
    => \A i \in 1..Len(rs.log) :
          rs.log[i].failed
          => /\ ProductClientError(rs.op, rs.log[i].call.method) \in rs.diags
             /\ rs.state = <<>>

\* An update whose GET succeeded and whose PUT failed.
C14_Witness ==
    /\ rs.kind = "product"
    /\ rs.op = "update"
    /\ rs.pc = "done"
    /\ Len(rs.log) = 2
    /\ ~rs.log[1].failed
    /\ rs.log[2].failed
    /\ rs.diags = {"Client Error: Unable to update product"}
    /\ rs.state = <<>>

\* What C15 gives as the value of setting f: the configuration value when it
\* is not null, the environment variable otherwise.
Resolved(f) ==
    IF pv.data[f].st # "null" THEN pv.data[f].s ELSE pv.env[EnvName[f]]
NoneUnknown == \A f \in Settings : pv.data[f].st # "unknown"
Published == pv.ResourceData.set /\ pv.DataSourceData.set
Summaries == {d.summary : d \in pv.diags}
MissingSummary ==
    [OrganizationID |-> "Missing M3ter Organization ID",
     AccessKey |-> "Missing M3ter Access Key",
     SecretKey |-> "Missing M3ter Secret Key"]
UnknownSummary ==
    [OrganizationID |-> "Unknown M3ter Organization ID",
     AccessKey |-> "Unknown M3ter Access Key",
     SecretKey |-> "Unknown M3ter Secret Key"]

\* C15: Configure resolves organization ID, access key and secret key each
\* as the configuration value when it is non-null and the environment
\* variable otherwise: the client published carries these values, and a
\* setting is reported missing exactly when this value is empty, so that an
\* empty string in the configuration wins over a set environment variable.
C15_ConfigOverEnv ==
    (pv.pc = "done" /\ pv.ok /\ NoneUnknown)
    => /\ \A f \in Settings : (MissingSummary[f] \in Summaries) <=> (Resolved(f) = "")
       /\ Published
             => /\ pv.ResourceData.organizationID = Resolved("OrganizationID")
                /\ pv.ResourceData.ClientID = Resolved("AccessKey")
                /\ pv.ResourceData.ClientSecret = Resolved("SecretKey")

\* An empty organization_id in the configuration with the environment
\* variable set: reported missing, nothing published.
C15_Witness ==
    /\ pv.pc = "done"
    /\ pv.ok
    /\ pv.data["OrganizationID"] = StringValue("")
    /\ pv.env["M3TER_ORGANIZATION_ID"] = "e"
    /\ pv.data["AccessKey"] = NullValue("String")
    /\ pv.env["M3TER_ACCESS_KEY"] = "e"
    /\ pv.data["SecretKey"] = StringValue("v")
    /\ Summaries = {"Missing M3ter Organization ID"}
    /\ ~Published

\* A setting is offending when it is unknown or resolves to the empty string.
Offending(f) == pv.data[f].st = "unknown" \/ Resolved(f) = ""
AllSet == NoneUnknown /\ \A f \in Settings : Resolved(f) # ""
UnknownSettings == {f \in Settings : pv.data[f].st = "unknown"}
MissingSettings == {f \in Settings : Resolved(f) = ""}

\* C16 as stated: Configure publishes a client if and only if no setting is
\* unknown and all three resolve to a non-empty string; otherwise it reports
\* one error per offending setting and publishes no client.
C16_ErrorPerOffending ==
    (pv.pc = "done" /\ pv.ok)
    => /\ Published <=> AllSet
       /\ ~AllSet
             => /\ ~pv.ResourceData.set /\ ~pv.DataSourceData.set
                /\ \A f \in Settings :
                      Offending(f) <=> (UnknownSummary[f] \in Summaries
                                          \/ MissingSummary[f] \in Summaries)
                /\ Cardinality(pv.diags) = Cardinality({f \in Settings : Offending(f)})

\* C16, amended: Configure publishes a client (ResourceData and
\* DataSourceData) if and only if no setting is unknown and all three resolve
\* to a non-empty string. Otherwise it publishes no client and reports one
\* error per unknown setting and nothing else when some setting is unknown,
\* and one error per setting that resolves to the empty string when none is.
C16_PublishIffAllSet ==
    (pv.pc = "done" /\ pv.ok)
    => /\ Published <=> AllSet
       /\ pv.ResourceData = pv.DataSourceData
       /\ ~AllSet => ~pv.ResourceData.set /\ ~pv.DataSourceData.set
       /\ UnknownSettings # {}
             => /\ Summaries = {UnknownSummary[f] : f \in UnknownSettings}
                /\ Cardinality(pv.diags) = Cardinality(UnknownSettings)
       /\ UnknownSettings = {}
             => /\ Summaries = {MissingSummary[f] : f \in MissingSettings}
                /\ Cardinality(pv.diags) = Cardinality(MissingSettings)

\* An unknown secret key next to an access key set nowhere: one error, for
\* the secret key.
C16_Witness ==
    /\ pv.pc = "done"
    /\ pv.ok
    /\ pv.data["OrganizationID"] = StringValue("v")
    /\ pv.data["AccessKey"] = NullValue("String")
    /\ pv.env["M3TER_ACCESS_KEY"] = ""
    /\ pv.data["SecretKey"] = UnknownValue("String")
    /\ Summaries = {"Unknown M3ter Secret Key"}
    /\ ~Published

\* C17: deleting the organization config resource makes no execute call,
\* takes no limiter token, puts no request on the wire and adds no
\* diagnostic: nothing reaches the remote organization configuration.
C17_DeleteIsLocal ==
    \A p \in Procs :
        op[p] = "orgDelete"
        => /\ pc[p] = "done"
           /\ log[p] = <<>>
           /\ call[p] = NoCall
           /\ diags[p] = {}
           /\ sent = 0

\* A Delete that has returned.
C17_Witness ==
    /\ op[1] = "orgDelete"
    /\ pc[1] = "done"
    /\ sent = 0

\* C18: webhook destination credentials are write-only: whatever credentials a
\* response carries, the model after the read callback, and every model
\* written to state by a Create, Read or Update, hold the credentials of the
\* plan or prior state.
C18_CredentialsWriteOnly ==
    rs.kind = "webhook"
    => /\ rs.data.Credentials = rs.plan.Credentials
       /\ \A i \in DOMAIN rs.state :
             rs.state[i].Credentials = rs.plan.Credentials

\* A webhook destination written to state from a response that carries other
\* credentials than the plan's, the rest of the response having been mapped.
C18_Witness ==
    /\ rs.kind = "webhook"
    /\ rs.op \in {"create", "read", "update"}
    /\ rs.state = <<rs.data>>
    /\ "credentials" \in DOMAIN LastGot
    /\ LastGot["credentials"] = GoMap([k \in {"apiKey", "secret"} |->
                                         IF k = "apiKey" THEN GoString("key2")
                                         ELSE GoString("masked")])
    /\ rs.plan.Credentials.api_key = StringValue("key")
    /\ rs.data.Name = StringValue("n2")

\* The write callback of a product has run: it always sets customFields.
ProductWritten ==
    /\ rs.kind = "product"
    /\ "customFields" \in DOMAIN rs.restData
\* The read callback of a product has run on the last response.
ProductReadRan ==
    /\ rs.kind = "product"
    /\ rs.pc = "done"
    /\ rs.log # <<>>
    /\ ~rs.log[Len(rs.log)].failed
    /\ rs.log[Len(rs.log)].call.method \in {"POST", "PUT"} \/ rs.op = "read"
\* The custom fields of the model are a map or an object with elements.
HasElements(d) == d.st = "known" /\ d.ust = "known" /\ d.under \in {"Map", "Object"}
\* The response's customFields is a map holding a value that is neither a
\* string nor a number.
BadResponseValue ==
    /\ "customFields" \in DOMAIN LastGot
    /\ LastGot["customFields"].t = "map"
    /\ \E k \in DOMAIN LastGot["customFields"].m :
          LastGot["customFields"].m[k].t \notin {"string", "float64"}
\* customFieldsFrom: every string or numeric custom field of the model is in
\* the request's customFields under the same key with the same value, and a
\* value of another type is reported as an invalid custom field value.
CustomFieldsFromCopies ==
    ProductWritten
    => LET src == rs.plan.CustomFields
           cf == rs.restData["customFields"]
       IN /\ cf.t = "map"
          /\ HasElements(src)
             => \A k \in DOMAIN src.elems :
                   LET e == src.elems[k]
                   IN /\ e.ty = "String"
                         => k \in DOMAIN cf.m /\ cf.m[k].t = "string"
                               /\ cf.m[k].s = e.s
                      /\ e.ty \in {"Float64", "Int32", "Int64", "Number"}
                         => k \in DOMAIN cf.m /\ cf.m[k].n = e.n
                               /\ cf.m[k].half = e.half
                               /\ cf.m[k].t \in {"float64", "int32", "int64"}
                      /\ e.ty \notin {"String", "Float64", "Int32", "Int64", "Number"}
                         => InvalidCustomFieldValue \in rs.diags
          /\ (rs.log = <<>> /\ InvalidCustomFieldValue \in rs.diags)
             => HasElements(src) /\ \E k \in DOMAIN src.elems :
                                       ~IsStringOrNumber(src.elems[k])

\* C19 as stated: customFieldsFrom copies the string and numeric custom
\* fields and reports any other; customFieldsTo reports an invalid custom
\* field value for every response value that is neither a string nor a number.
C19_ToAlwaysReports ==
    /\ CustomFieldsFromCopies
    /\ (ProductReadRan /\ BadResponseValue)
       => InvalidCustomFieldValue \in rs.diags

\* C19, amended: customFieldsFrom as stated; customFieldsTo reports the
\* invalid custom field value when the target attribute is neither unknown
\* nor a map (the branch that builds an object); for an unknown or a map
\* target the conversion is the framework's and that error is not reported.
C19_StringOrNumber ==
    /\ CustomFieldsFromCopies
    /\ (ProductReadRan /\ BadResponseValue
          /\ rs.plan.CustomFields.st # "unknown"
          /\ rs.plan.CustomFields.ust # "unknown"
          /\ rs.plan.CustomFields.under # "Map")
       => InvalidCustomFieldValue \in rs.diags
    /\ (ProductReadRan /\ BadResponseValue
          /\ (rs.plan.CustomFields.st = "unknown"
                 \/ rs.plan.CustomFields.under = "Map"))
       => InvalidCustomFieldValue \notin rs.diags

\* An update whose plan has the string custom field a = "x": the request
\* carries it, the response to the PUT answers with a boolean for it, and
\* the read callback reports the invalid value.
C19_Witness ==
    /\ ProductReadRan
    /\ ProductWritten
    /\ rs.op = "update"
    /\ rs.plan.CustomFields = DynamicObject([k \in {"a"} |-> StringValue("x")])
    /\ rs.restData["customFields"] = GoMap([k \in {"a"} |-> GoString("x")])
    /\ BadResponseValue
    /\ InvalidCustomFieldValue \in rs.diags

\* The ids of the products, on any page, whose code is the import ID.
IdsWithCode ==
    {q.id : q \in {x \in UNION {OnPage(im.catalog[i]) : i \in DOMAIN im.catalog} :
                      x.code = im.id}}
\* The import has ended, the GET by id answered 404 and no list call failed.
ImportedByCode ==
    /\ im.pc = "done"
    /\ im.err1 = statusCodeError(404, "")
    /\ "Failed to list products" \notin im.diags

\* What the import does find: a product with the code on the first page of
\* the list, whose id it sets with no error; every list call has a nil query.
ImportFindsOnFirstPage ==
    /\ (ImportedByCode /\ FirstWithCode(im.catalog[1], im.id) # "")
          => im.stateId = FirstWithCode(im.catalog[1], im.id) /\ im.diags = {}
    /\ \A i \in 2..Len(im.log) : im.log[i].query = NoQuery

\* C20: importing a product by code: when GET /products/<import ID> answers
\* 404 and a product with that code is on some page of the list, ImportState
\* ends with the state id set to that product's id and no error, and on the
\* way it asks for each page once (it follows nextToken, so it terminates).
C20_ImportByCode ==
    /\ (ImportedByCode /\ IdsWithCode # {})
          => im.stateId \in IdsWithCode /\ im.diags = {}
    /\ \A i, j \in 2..Len(im.log) : i < j => im.log[i].query # im.log[j].query

\* The product with the code is on the second page: the import ends with
\* "Product not found" and the state id set to the import ID.
C20_Witness ==
    /\ ImportedByCode
    /\ im.id = "c2"
    /\ im.catalog = <<<<ImportProduct1>>, <<ImportProduct2>>>>
    /\ im.key = "nextToken"
    /\ im.diags = {"Product not found"}
    /\ im.stateId = "c2"

\* A product update has got as far as its PUT: the map the GET returned and
\* the body the PUT carries.
PutPrepared ==
    /\ rs.kind = "product"
    /\ rs.op = "update"
    /\ \/ rs.pc = "call" /\ rs.call.method = "PUT"
       \/ Len(rs.log) >= 2
GetMap == rs.log[1].got
PutBody == IF Len(rs.log) >= 2 THEN rs.log[2].body ELSE rs.restData
\* The keys the write callback maps with mapper.from, by model field.
FromKeys == [Id |-> "id", Version |-> "version", Name |-> "name", Code |-> "code"]
\* Key k of the PUT body is as the GET returned it: absent in both or equal.
KeyUnchanged(k) ==
    /\ k \in DOMAIN GetMap <=> k \in DOMAIN PutBody
    /\ k \in DOMAIN GetMap => PutBody[k] = GetMap[k]
\* Field f of the plan is known and not null, and its key carries its value.
IsPlanned(f) == rs.plan[f].st = "known"
KeyOverwritten(f) ==
    /\ FromKeys[f] \in DOMAIN PutBody
    /\ PutBody[FromKeys[f]].s = rs.plan[f].s
    /\ PutBody[FromKeys[f]].n = rs.plan[f].n
    /\ PutBody[FromKeys[f]].t \in {"string", "int64"}
FromKeysFollowPlan ==
    /\ \A f \in DOMAIN FromKeys :
          IF IsPlanned(f) THEN KeyOverwritten(f) ELSE KeyUnchanged(FromKeys[f])
    /\ \A k \in (DOMAIN GetMap \cup DOMAIN PutBody)
                  \ ({FromKeys[f] : f \in DOMAIN FromKeys} \cup {"customFields"}) :
          KeyUnchanged(k)

NoPut ==
    /\ rs.call.method # "PUT"
    /\ \A i \in 1..Len(rs.log) : rs.log[i].call.method # "PUT"
\* The write callback of the update reports an error on the map the GET
\* returned.
WriteFails == ProductResourceWrite(rs.plan, rs.log[1].got).diags # {}

\* C22: in genericUpdate, if the initial GET fails or the write callback
\* reports an error, the update ends there: no PUT is made, so the remote
\* entity is not modified, and nothing is written to state.
C22_NoPutAfterFailure ==
    (rs.kind = "product" /\ rs.op = "update" /\ rs.log # <<>>
        /\ (rs.log[1].failed \/ WriteFails))
    => /\ NoPut
       /\ rs.pc = "done"
       /\ Len(rs.log) = 1
       /\ rs.state = <<>>
       /\ rs.diags # {}

\* An update whose GET succeeded and whose plan holds a boolean custom
\* field: the write callback reported it and the update ended after the GET.
C22_Witness ==
    /\ rs.kind = "product"
    /\ rs.op = "update"
    /\ rs.log # <<>>
    /\ ~rs.log[1].failed
    /\ "dtCreated" \in DOMAIN rs.log[1].got
    /\ WriteFails
    /\ rs.diags = {InvalidCustomFieldValue}
    /\ rs.pc = "done"
    /\ NoPut

\* C23: in genericUpdate, when the plan's version is unknown, the version in
\* the PUT body is the version the GET of the same call returned, whatever
\* another writer has done to the remote entity since that GET.
C23_VersionFromGet ==
    (PutPrepared /\ IsUnknown(rs.plan.Version))
    => /\ "version" \in DOMAIN GetMap
       /\ "version" \in DOMAIN PutBody
       /\ PutBody["version"] = GetMap["version"]

\* The PUT has been sent with the version the GET returned, after another
\* writer moved the remote entity to a later version.
C23_Witness ==
    /\ PutPrepared
    /\ IsUnknown(rs.plan.Version)
    /\ Len(rs.log) = 2
    /\ "version" \in DOMAIN PutBody
    /\ PutBody["version"] = GoFloat64(1, FALSE)
    /\ GetMap["version"] = GoFloat64(1, FALSE)
    /\ rs.remote = 2

====
